---- MODULE Spec2Model ----
(***************************************************************************)
(* A model of late.js, revision 0.3 (src/unnamed/part_000): the scanner,   *)
(* the parser (tokenize, squash, nest), the writer with its template       *)
(* cache, the handler table and the facade object `late`.                  *)
(*                                                                         *)
(* JavaScript strings are sequences of one-character strings, so that the  *)
(* scanner's regular expressions are computed character by character.      *)
(* The alphabet of the model holds no upper-case letter, so the `i` flag   *)
(* of tagRe is not observable, and no regular-expression metacharacter     *)
(* occurs in a registered kind.                                            *)
(***************************************************************************)
EXTENDS Integers, Sequences, FiniteSets, TLC

VARIABLES
    history,           \* the parse and clearCache calls made so far
    cache,             \* defaultWriter.cache, in insertion order
    current,           \* defaultWriter.current
    tagReList,         \* the kinds tagRe is built from
    tokenHandlers,     \* kind -> handler
    tags,              \* the closure variable `tags`
    lateTags,          \* the property late.tags
    lateEscape,        \* the property late.escape
    promiseElementId,  \* placeholder counter
    input,             \* the arguments drawn for the call under study
    last,              \* what the last call did: result, errors reported
    theContext,        \* the Context under study: its frames, the root first
    promises           \* the callbacks given to promise.then, in order

vars == <<history, cache, current, tagReList, tokenHandlers, tags, lateTags,
          lateEscape, promiseElementId, input, last, theContext, promises>>

----------------------------------------------------------------------------
(* `var value = ...; In` of the source: In applied to the value, which is
   computed once however often In reads it. *)
With(value, In(_)) == In(value)

----------------------------------------------------------------------------
(* Strings *)

S_text == <<"t","e","x","t">>
S_name == <<"n","a","m","e">>
S_if == <<"i","f">>
S_else == <<"e","l","s","e">>
S_each == <<"e","a","c","h">>
S_get == <<"g","e","t">>
S_promise == <<"p","r","o","m","i","s","e">>
S_html == <<"h","t","m","l">>
S_gt == <<">">>
S_gtgt == <<">",">">>
S_pct == <<"%">>
S_slash == <<"/">>

\* \s of a JavaScript regular expression, on the model's alphabet
IsWhite(c) == c \in {" ", "\t", "\n"}

\* s.substring(i) for a 0-based i
Substring(s, i) == SubSeq(s, i + 1, Len(s))

\* whether lit occurs in s at the 1-based index i
OccursAt(s, i, lit) ==
    /\ i + Len(lit) - 1 <= Len(s)
    /\ \A k \in 1..Len(lit) : s[i + k - 1] = lit[k]

\* the number of whitespace characters of s from the 1-based index i on
WhiteRun(s, i) ==
    LET F[k \in i..(Len(s) + 1)] ==
            IF k > Len(s) \/ ~IsWhite(s[k]) THEN 0 ELSE 1 + F[k + 1]
    IN  IF i > Len(s) THEN 0 ELSE F[i]

\* string.replace(/ /g, '')
StripSpaces(s) == SelectSeq(s, LAMBDA c : c # " ")

\* String.prototype.trim
RECURSIVE TrimRight(_)
TrimRight(s) ==
    IF s # <<>> /\ IsWhite(s[Len(s)]) THEN TrimRight(SubSeq(s, 1, Len(s) - 1)) ELSE s

RECURSIVE TrimLeft(_)
TrimLeft(s) == IF s # <<>> /\ IsWhite(s[1]) THEN TrimLeft(Tail(s)) ELSE s

Trim(s) == TrimLeft(TrimRight(s))

----------------------------------------------------------------------------
(* Scanner *)

\* string.replace(/ +/g, " ")
CollapseSpaces(s) ==
    LET F[i \in 0..Len(s)] ==
            IF i = 0 THEN <<>>
            ELSE IF s[i] = " " /\ i > 1 /\ s[i - 1] = " " THEN F[i - 1]
            ELSE Append(F[i - 1], s[i])
    IN  F[Len(s)]

\* string.replace(/[\t\n]/g, "")
RemoveTabsNewlines(s) == SelectSeq(s, LAMBDA c : c \notin {"\t", "\n"})

\* the constructor's `fix`
ScannerFix(string) == RemoveTabsNewlines(CollapseSpaces(string))

Scanner(string) ==
    With(ScannerFix(string), LAMBDA fixed :
        [string |-> fixed, tail |-> fixed, pos |-> 0])

eos(sc) == sc.tail = <<>>

(* A regular expression of the parser is one of
     [re |-> "open",  lit |-> o]     escapeRegExp(o) + '\\s*'
     [re |-> "close", lit |-> c]     '\\s*' + escapeRegExp(c)
     [re |-> "tag",   list |-> l]    tagRe built from the list l
     [re |-> "white"]                whiteRe
   ReSearch is String.prototype.search: the 0-based index of the leftmost
   match, -1 when there is none; ReMatch is match(re)[0], the text of the
   leftmost match, and Nothing when match returns null. *)
Nothing == <<"<null>">>

TagAlternatives(list) ==
    [i \in 1..Len(list) |-> IF i < Len(list) THEN list[i] \o <<" ">> ELSE list[i]]
        \o <<S_else, S_slash>>

ReMatchLenAt(re, s, i) ==
    \* the length of the match of re in s starting at the 1-based index i, -1 if none
    CASE re.re = "open" ->
            IF OccursAt(s, i, re.lit) THEN Len(re.lit) + WhiteRun(s, i + Len(re.lit)) ELSE -1
      [] re.re = "close" ->
            With(WhiteRun(s, i), LAMBDA w :
                IF OccursAt(s, i + w, re.lit) THEN w + Len(re.lit) ELSE -1)
      [] re.re = "tag" ->
            With(TagAlternatives(re.list), LAMBDA alts :
            With({k \in 1..Len(alts) : OccursAt(s, 1, alts[k])}, LAMBDA hit :
                IF i = 1 /\ hit # {}
                THEN Len(alts[CHOOSE k \in hit : \A j \in hit : k <= j])
                ELSE -1))
      [] re.re = "white" -> IF i = 1 THEN WhiteRun(s, 1) ELSE -1

ReSearch(re, s) ==
    With({i \in 1..(Len(s) + 1) : ReMatchLenAt(re, s, i) >= 0}, LAMBDA hit :
        IF hit = {} THEN -1 ELSE (CHOOSE i \in hit : \A j \in hit : i <= j) - 1)

ReMatch(re, s) ==
    With(ReSearch(re, s), LAMBDA index :
        IF index = -1 THEN Nothing
        ELSE SubSeq(s, index + 1, index + ReMatchLenAt(re, s, index + 1)))

\* Scanner.prototype.scan: the scanner after the call and the value returned
scan(sc, re) ==
    With(ReMatch(re, sc.tail), LAMBDA match :
        IF match = Nothing THEN [sc |-> sc, ret |-> <<>>]
        ELSE [sc |-> [sc EXCEPT !.tail = Substring(sc.tail, Len(match)),
                                !.pos = sc.pos + Len(match)],
              ret |-> match])

\* Scanner.prototype.scanUntil
scanUntil(sc, re) ==
    With(ReSearch(re, sc.tail), LAMBDA index :
    With(CASE index = -1 -> sc.tail
           [] index = 0 -> <<>>
           [] OTHER -> SubSeq(sc.tail, 1, index), LAMBDA match :
    With(CASE index = -1 -> <<>>
           [] index = 0 -> sc.tail
           [] OTHER -> Substring(sc.tail, index), LAMBDA tail :
        [sc |-> [sc EXCEPT !.tail = tail, !.pos = sc.pos + Len(match)],
         ret |-> match])))

----------------------------------------------------------------------------
(* Tokens.  A token is the array [kind, value, start, end]; a section token
   has a fifth item, its child list, and, once closed, a sixth, the start
   offset of its closing tag.  What a call reports to consoleMessage with
   TYPE_ERROR is a sequence of message kinds; `threw` says that the call
   ended with an exception (a TypeError of the engine itself). *)

Token(kind, value, start, end) ==
    [kind |-> kind, value |-> value, start |-> start, end |-> end]

HasChildren(token) == "children" \in DOMAIN token
HasClose(token) == "close" \in DOMAIN token

WithChildren(token, children) ==
    [kind |-> token.kind, value |-> token.value, start |-> token.start,
     end |-> token.end, children |-> children]

\* a section closed with an offset two characters further on
WithCloseInside(token, children, close) ==
    [kind |-> token.kind, value |-> token.value, start |-> token.start,
     end |-> token.end, children |-> children, close |-> close + 2]

WithClose(token, children, close) ==
    [kind |-> token.kind, value |-> token.value, start |-> token.start,
     end |-> token.end, children |-> children, close |-> close]

\* the section kinds without get and promise
IsIfOrEach(kind) == kind \in {S_if, S_each}

\* the kinds nestTokens and parseTemplate open a section for
IsSectionKind(kind) == kind \in {S_if, S_each, S_get, S_promise}

(* nestTokens.  The source keeps a stack of section tokens and appends to
   the child list of the top one; here the stack holds each open section
   with the children collected so far, and a section is put into its
   parent's list when it is closed or, if it never is, at the end.  The
   order of every list is the source's, since while a section is open
   nothing is appended to its parent.  A close token met with an empty
   stack makes the source write to `undefined`, a TypeError. *)
RECURSIVE Unwind(_, _)
Unwind(root, stack) ==
    IF stack = <<>> THEN root
    ELSE LET top == stack[Len(stack)]
             done == WithChildren(top.token, top.kids)
             rest == SubSeq(stack, 1, Len(stack) - 1)
         IN  IF rest = <<>> THEN Unwind(Append(root, done), rest)
             ELSE Unwind(root,
                         [rest EXCEPT ![Len(rest)].kids = Append(@, done)])

RECURSIVE NestLoop(_, _, _, _)
NestLoop(tokens, i, root, stack) ==
    IF i > Len(tokens) THEN [threw |-> FALSE, tokens |-> Unwind(root, stack)]
    ELSE LET token == tokens[i]
         IN  IF IsSectionKind(token.kind)
             THEN NestLoop(tokens, i + 1, root,
                           Append(stack, [token |-> token, kids |-> <<>>]))
             ELSE IF token.kind = S_slash
             THEN IF stack = <<>> THEN [threw |-> TRUE, tokens |-> <<>>]
                  ELSE LET top == stack[Len(stack)]
                           done == WithClose(top.token, top.kids, token.start)
                           rest == SubSeq(stack, 1, Len(stack) - 1)
                       IN  IF rest = <<>>
                           THEN NestLoop(tokens, i + 1, Append(root, done), rest)
                           ELSE NestLoop(tokens, i + 1, root,
                                    [rest EXCEPT ![Len(rest)].kids = Append(@, done)])
             ELSE IF stack = <<>>
             THEN NestLoop(tokens, i + 1, Append(root, token), stack)
             ELSE NestLoop(tokens, i + 1, root,
                      [stack EXCEPT ![Len(stack)].kids = Append(@, token)])

nestTokens(tokens) == NestLoop(tokens, 1, <<>>, <<>>)

\* an element of a token list that is undefined: `if (token)` skips it
NoToken == [t |-> "undefined"]

\* a squashTokens that pushes every token as it is
squashNothing(tokens) == tokens

\* squashTokens; lastToken is the last token pushed
RECURSIVE SquashLoop(_, _, _)
SquashLoop(tokens, i, squashed) ==
    IF i > Len(tokens) THEN squashed
    ELSE LET token == tokens[i]
             n == Len(squashed)
         IN  IF token = NoToken THEN SquashLoop(tokens, i + 1, squashed)
             ELSE IF token.kind = S_text /\ n > 0 /\ squashed[n].kind = S_text
             THEN SquashLoop(tokens, i + 1,
                      [squashed EXCEPT ![n].value = @ \o token.value,
                                       ![n].end = token.end])
             ELSE SquashLoop(tokens, i + 1, Append(squashed, token))

squashTokens(tokens) == SquashLoop(tokens, 1, <<>>)

(* parseTemplate.  ParseWith is the function with the globals it reads as
   arguments: tgs is `tags`, list is tagReList (of which tagRe is built).
   The result is [threw, tokens, errors]; tokens is the value returned
   when threw is FALSE. *)
Thrown(errors) == [threw |-> TRUE, tokens |-> <<>>, errors |-> errors]

RECURSIVE ParseLoop(_, _, _, _, _, _)

\* after the loop: the unclosed-section report, then squash and nest
ParseEnd(tokens, sections, errors) ==
    With(IF sections # <<>> THEN Append(errors, "UnclosedSectionAtEnd") ELSE errors,
         LAMBDA errors1 :
    With(nestTokens(squashTokens(tokens)), LAMBDA nested :
        IF nested.threw THEN Thrown(errors1)
        ELSE [threw |-> FALSE, tokens |-> nested.tokens, errors |-> errors1]))

\* the tag just scanned: its token is pushed, then its kind is looked at
ParseTag(tgs, list, sc, tokens, sections, errors, token, value) ==
    With(Append(tokens, token), LAMBDA tokens2 :
    With(Len(sections), LAMBDA n :
        IF IsSectionKind(token.kind)
        THEN ParseLoop(tgs, list, sc, tokens2, Append(sections, token), errors)
        ELSE IF token.kind = S_slash
        THEN IF n = 0 THEN Thrown(Append(errors, "UnopenedSection"))
             ELSE ParseLoop(tgs, list, sc, tokens2, SubSeq(sections, 1, n - 1),
                      IF sections[n].kind # value
                      THEN Append(errors, "UnclosedSection") ELSE errors)
        ELSE IF token.kind = S_else
        THEN IF n = 0 THEN Thrown(errors)
             ELSE ParseLoop(tgs, list, sc, tokens2, sections,
                      IF sections[n].kind # S_if
                      THEN Append(errors, "UnopenedIfForElse") ELSE errors)
        ELSE ParseLoop(tgs, list, sc, tokens2, sections, errors)))

ParseLoop(tgs, list, sc, tokens, sections, errors) ==
    With([re |-> "open", lit |-> tgs[1]], LAMBDA openingTagRe :
    With([re |-> "close", lit |-> tgs[2]], LAMBDA closingTagRe :
    With(scanUntil(sc, openingTagRe), LAMBDA r1 :
    With(IF r1.ret # <<>>
         THEN Append(tokens, Token(S_text, r1.ret, sc.pos, Len(r1.ret)))
         ELSE tokens, LAMBDA tokens1 :
    With(scan(r1.sc, openingTagRe), LAMBDA r2 :
    With(scan(r2.sc, [re |-> "tag", list |-> list]), LAMBDA r3 :
    With(IF Trim(r3.ret) = <<>> THEN S_name ELSE Trim(r3.ret), LAMBDA type :
    With(scan(r3.sc, [re |-> "white"]), LAMBDA r4 :
    With(scanUntil(r4.sc, closingTagRe), LAMBDA r5 :
    With(scan(r5.sc, closingTagRe), LAMBDA r6 :
        IF eos(sc) THEN ParseEnd(tokens, sections, errors)
        ELSE IF r2.ret = <<>> THEN ParseEnd(tokens1, sections, errors)
        ELSE ParseTag(tgs, list, r6.sc, tokens1, sections,
                 IF r6.ret = <<>> THEN Append(errors, "UnclosedTag") ELSE errors,
                 Token(type, StripSpaces(r5.ret), sc.pos + Len(r1.ret), r6.sc.pos),
                 r5.ret)))))))))))

\* `tags` is an array: tags[0] and tags[1] are undefined beyond its length,
\* and escapeRegExp(undefined) throws
ParseWith(tgs, list, template) ==
    IF template = <<>> THEN [threw |-> FALSE, tokens |-> <<>>, errors |-> <<>>]
    ELSE IF Len(tgs) < 2 THEN Thrown(<<>>)
    ELSE ParseLoop(tgs, list, Scanner(template), <<>>, <<>>, <<>>)

parseTemplate(name, template) == ParseWith(tags, tagReList, template)

----------------------------------------------------------------------------
(* JavaScript values.  Objects are functions from keys to values: their
   own properties, on the model's alphabet.  Of the properties an object
   literal inherits from Object.prototype the model has toString; an
   object made by Object.create(null) is marked `bare` and inherits
   nothing.  A function value is named by what it does. *)

Undef == [t |-> "undefined"]
Null == [t |-> "null"]
NaN == [t |-> "NaN"]
Bool(b) == [t |-> "boolean", b |-> b]
Num(n) == [t |-> "number", n |-> n]
Str(s) == [t |-> "string", s |-> s]
Obj(o) == [t |-> "object", o |-> o]
Arr(a) == [t |-> "array", a |-> a]
Fn(f) == [t |-> "function", f |-> f]
Deferred(p) == [t |-> "promise", p |-> p]
EmptyObject == Obj(<<>>)

\* Object.create(null)
BareObject == [t |-> "object", o |-> <<>>, bare |-> TRUE]

\* Object.prototype[key]
ObjectPrototype(key) ==
    IF key = <<"t","o","S","t","r","i","n","g">> THEN Fn("Object.prototype.toString")
    ELSE Undef

\* ToBoolean
Truthy(v) ==
    CASE v.t \in {"undefined", "null", "NaN"} -> FALSE
      [] v.t = "boolean" -> v.b
      [] v.t = "number" -> v.n # 0
      [] v.t = "string" -> v.s # <<>>
      [] OTHER -> TRUE

Digits == <<"0","1","2","3","4","5","6","7","8","9">>
IsDigit(c) == \E d \in 1..10 : Digits[d] = c
DigitValue(c) == (CHOOSE d \in 1..10 : Digits[d] = c) - 1

RECURSIVE NatToString(_)
NatToString(n) ==
    IF n < 10 THEN <<Digits[n + 1]>>
    ELSE NatToString(n \div 10) \o <<Digits[(n % 10) + 1]>>

RECURSIVE Join(_, _)
Join(strs, sep) ==
    IF strs = <<>> THEN <<>>
    ELSE IF Len(strs) = 1 THEN strs[1]
    ELSE strs[1] \o sep \o Join(Tail(strs), sep)

\* String(value)
RECURSIVE JsString(_)
JsString(v) ==
    CASE v.t = "undefined" -> <<"u","n","d","e","f","i","n","e","d">>
      [] v.t = "null" -> <<"n","u","l","l">>
      [] v.t = "NaN" -> <<"N","a","N">>
      [] v.t = "boolean" -> IF v.b THEN <<"t","r","u","e">> ELSE <<"f","a","l","s","e">>
      [] v.t = "number" ->
            IF v.n < 0 THEN <<"-">> \o NatToString(-v.n) ELSE NatToString(v.n)
      [] v.t = "string" -> v.s
      [] v.t = "array" ->
            Join([i \in 1..Len(v.a) |->
                    IF v.a[i].t \in {"undefined", "null"} THEN <<>> ELSE JsString(v.a[i])],
                 <<",">>)
      [] v.t = "function" -> <<"f","u","n","c","t","i","o","n">>
      [] v.t = "promise" -> <<"[","o","b","j","e","c","t"," ","P","r","o","m","i","s","e","]">>
      [] OTHER -> <<"[","o","b","j","e","c","t"," ","O","b","j","e","c","t","]">>

\* string.split(sep) for a one-character separator
RECURSIVE Split(_, _)
Split(s, sep) ==
    LET hit == {i \in 1..Len(s) : s[i] = sep}
    IN  IF hit = {} THEN <<s>>
        ELSE LET i == CHOOSE k \in hit : \A j \in hit : k <= j
             IN  <<SubSeq(s, 1, i - 1)>> \o Split(SubSeq(s, i + 1, Len(s)), sep)

\* string.indexOf(c), 0-based, -1 when absent
IndexOf(s, c) ==
    LET hit == {i \in 1..Len(s) : s[i] = c}
    IN  IF hit = {} THEN -1 ELSE (CHOOSE k \in hit : \A j \in hit : k <= j) - 1

IsIndexString(s) == s # <<>> /\ \A i \in 1..Len(s) : IsDigit(s[i])

RECURSIVE ParseNat(_)
ParseNat(s) ==
    IF s = <<>> THEN 0 ELSE 10 * ParseNat(SubSeq(s, 1, Len(s) - 1)) + DigitValue(s[Len(s)])

(* value[key] for a string key: [threw, value].  Reading a property of
   undefined or null throws a TypeError. *)
GetProp(v, key) ==
    CASE v.t \in {"undefined", "null"} -> [threw |-> TRUE, value |-> Undef]
      [] v.t = "object" ->
            [threw |-> FALSE,
             value |-> IF key \in DOMAIN v.o THEN v.o[key]
                       ELSE IF "bare" \in DOMAIN v THEN Undef
                       ELSE ObjectPrototype(key)]
      [] v.t = "array" ->
            [threw |-> FALSE,
             value |-> IF key = <<"l","e","n","g","t","h">> THEN Num(Len(v.a))
                       ELSE IF IsIndexString(key) /\ ParseNat(key) < Len(v.a)
                       THEN v.a[ParseNat(key) + 1] ELSE Undef]
      [] v.t = "string" ->
            [threw |-> FALSE,
             value |-> IF key = <<"l","e","n","g","t","h">> THEN Num(Len(v.s))
                       ELSE IF IsIndexString(key) /\ ParseNat(key) < Len(v.s)
                       THEN Str(<<v.s[ParseNat(key) + 1]>>) ELSE Undef]
      [] OTHER -> [threw |-> FALSE, value |-> Undef]

----------------------------------------------------------------------------
(* Context.  A context is the chain of its frames, the root frame first
   and `this` last: push keeps the root of the context it is called on,
   and the parent of a frame is the frame before it.  A frame holds its
   view and its cache.  The methods return the context as they leave it
   (its caches may have been written), the value, whether an exception
   escaped, and the errors reported. *)

Frame(view) ==
    LET v == IF view = Undef THEN BareObject ELSE view
    IN  [view |-> v, cache |-> (<<"$">> :> v)]

\* cache[name] of a frame: the cache is the object literal {'$': view}
CacheGet(frameCache, name) ==
    IF name \in DOMAIN frameCache THEN frameCache[name] ELSE ObjectPrototype(name)

Context(view) == <<Frame(view)>>

\* new Context(view, this) without the root: the new frame is its own root
pushAsRoot(ctx, view) == <<Frame(view)>>

push(ctx, view) == Append(ctx, Frame(view))

\* the host functions and view functions of the model: f.apply(this, args)
ApplyFn(f, this, args) ==
    CASE f = "String" ->
            [threw |-> FALSE,
             value |-> Str(IF args = <<>> THEN <<>> ELSE JsString(args[1]))]
      [] f = "self" -> [threw |-> FALSE, value |-> this]
      [] f = "Object.prototype.toString" ->
            [threw |-> FALSE,
             value |-> Str(<<"[","o","b","j","e","c","t"," ">> \o
                           (CASE this.t = "undefined" ->
                                     <<"U","n","d","e","f","i","n","e","d">>
                              [] this.t = "null" -> <<"N","u","l","l">>
                              [] this.t = "array" -> <<"A","r","r","a","y">>
                              [] this.t = "string" -> <<"S","t","r","i","n","g">>
                              [] this.t \in {"number", "NaN"} ->
                                     <<"N","u","m","b","e","r">>
                              [] this.t = "boolean" -> <<"B","o","o","l","e","a","n">>
                              [] this.t = "function" ->
                                     <<"F","u","n","c","t","i","o","n">>
                              [] this.t = "promise" -> <<"P","r","o","m","i","s","e">>
                              [] OTHER -> <<"O","b","j","e","c","t">>)
                           \o <<"]">>)]
      [] OTHER -> [threw |-> TRUE, value |-> Undef]

\* the host global scope
Window == Obj((<<"S","t","r","i","n","g">> :> Fn("String")))

\* the walk of one view in lookup: [threw, value, functionPath]
RECURSIVE DottedStep(_, _, _, _)
DottedStep(names, index, value, functionPath) ==
    IF value = Undef \/ index >= Len(names)
    THEN [threw |-> FALSE, value |-> value, functionPath |-> functionPath]
    ELSE With(IF index > 0 THEN GetProp(functionPath, names[index]).value
              ELSE functionPath, LAMBDA fp :
         With(GetProp(value, names[index + 1]), LAMBDA g :
             IF g.threw THEN [threw |-> TRUE, value |-> Undef, functionPath |-> fp]
             ELSE DottedStep(names, index + 1, g.value, fp)))

Resolve(view, name) ==
    IF IndexOf(name, ".") > 0
    THEN DottedStep(Split(name, "."), 0, view, view)
    ELSE With(GetProp(view, name), LAMBDA g :
             [threw |-> g.threw, value |-> g.value, functionPath |-> view])

\* a walk that goes up to the parents whatever skipParents says
RECURSIVE WalkAscending(_, _, _, _)
WalkAscending(ctx, idx, name, skipParents) ==
    With(Resolve(IF idx = 0 THEN Window ELSE ctx[idx].view, name), LAMBDA r :
        IF r.threw \/ r.value # Undef \/ idx <= 1 THEN r
        ELSE WalkAscending(ctx, idx - 1, name, skipParents))

\* the while loop of lookup, from frame idx (0: the frame made for `&`)
RECURSIVE Walk(_, _, _, _)
Walk(ctx, idx, name, skipParents) ==
    With(Resolve(IF idx = 0 THEN Window ELSE ctx[idx].view, name), LAMBDA r :
        IF r.threw \/ r.value # Undef \/ skipParents THEN r
        ELSE IF idx > 1 THEN Walk(ctx, idx - 1, name, FALSE)
        ELSE Walk(ctx, 1, name, TRUE))

IsNumeric(s) ==
    \/ s = <<>>
    \/ IsIndexString(s)
    \/ Len(s) > 1 /\ s[1] = "-" /\ IsIndexString(Tail(s))

\* parseInt(s, 10) of a string isNaN rejects not
ParseInt(s) ==
    IF s = <<>> THEN NaN
    ELSE IF s[1] = "-" THEN Num(0 - ParseNat(Tail(s)))
    ELSE Num(ParseNat(s))

Negate(negate, value) == IF negate THEN Bool(~Truthy(value)) ELSE value

Result(ctx, value, threw, errors) ==
    [ctx |-> ctx, value |-> value, threw |-> threw, errors |-> errors]

\* name.split(/\((.*)\)/): the parts before, inside and after the
\* parentheses, or the name alone when the expression does not match
SplitCall(name) ==
    LET opens == {i \in 1..Len(name) : name[i] = "("}
        closes == {i \in 1..Len(name) : name[i] = ")"}
        hit == {i \in opens : \E j \in closes : j > i}
    IN  IF hit = {} THEN <<name>>
        ELSE LET i == CHOOSE k \in hit : \A j \in hit : k <= j
                 e == CHOOSE k \in closes : \A j \in closes : j <= k
             IN  <<SubSeq(name, 1, i - 1), SubSeq(name, i + 1, e - 1),
                   SubSeq(name, e + 1, Len(name))>>

RECURSIVE lookup(_, _, _)
RECURSIVE functionCall(_, _)
RECURSIVE lookupWithReserved(_, _)
RECURSIVE LookupArgs(_, _, _, _)

\* the loop of functionCall over parseArgs
LookupArgs(ctx, parseArgs, x, args) ==
    IF x > Len(parseArgs) THEN Result(ctx, args, FALSE, <<>>)
    ELSE IF parseArgs[x] = <<>> THEN LookupArgs(ctx, parseArgs, x + 1, args)
    ELSE With(lookupWithReserved(ctx, parseArgs[x]), LAMBDA r :
             IF r.threw THEN r
             ELSE With(LookupArgs(r.ctx, parseArgs, x + 1, Append(args, r.value)),
                       LAMBDA rest : [rest EXCEPT !.errors = r.errors \o @]))

\* Context.prototype.functionCall
functionCall(ctx, name0) ==
    LET caught(c, errors) ==
            Result(c, Undef, FALSE, Append(errors, "functionCall exception"))
    IN
    With(name0 # <<>> /\ name0[1] = "!", LAMBDA negate :
    With(SplitCall(IF negate THEN Tail(name0) ELSE name0), LAMBDA parts :
    With(IF Len(parts) > 1 /\ parts[2] # <<>>
         THEN LookupArgs(ctx, Split(parts[2], ","), 1, <<>>)
         ELSE Result(ctx, <<>>, FALSE, <<>>), LAMBDA a :
    With(parts[1], LAMBDA name :
        IF a.threw THEN caught(a.ctx, a.errors)
        ELSE IF name = <<>> \/ name[1] \notin {"$", "#"}
        THEN With(Split(name, "."), LAMBDA namespaces :
             With(Len(namespaces), LAMBDA n :
             LET W[i \in 0..(n - 1)] ==
                     IF i = 0 THEN [threw |-> FALSE, value |-> Window]
                     ELSE IF W[i - 1].threw THEN W[i - 1]
                     ELSE GetProp(W[i - 1].value, namespaces[i])
             IN
             With(W[n - 1], LAMBDA context :
             With(IF context.threw THEN context
                  ELSE GetProp(context.value, namespaces[n]), LAMBDA f :
             With(IF f.threw \/ f.value.t # "function"
                  THEN [threw |-> TRUE, value |-> Undef]
                  ELSE ApplyFn(f.value.f, context.value, a.value), LAMBDA r :
                 IF r.threw THEN caught(a.ctx, a.errors)
                 ELSE Result(a.ctx, Negate(negate, r.value), FALSE, a.errors))))))
        ELSE With(lookup(a.ctx, name, a.value), LAMBDA r :
                 IF r.threw THEN caught(r.ctx, a.errors \o r.errors)
                 ELSE Result(r.ctx, Negate(negate, r.value), FALSE,
                             a.errors \o r.errors))))))

\* Context.prototype.lookup
lookup(ctx, name0, args) ==
    IF IndexOf(name0, "(") # -1 THEN functionCall(ctx, name0)
    ELSE
    With(name0 # <<>> /\ name0[1] = "!", LAMBDA negate :
    With(IF negate THEN Tail(name0) ELSE name0, LAMBDA name1 :
    With(IF name1 = <<>> THEN "" ELSE name1[1], LAMBDA firstChar :
    With(IF firstChar \in {"#", "&"}
         THEN IF firstChar = "#" /\ Substring(name1, 2) = <<>> THEN <<"$">>
              ELSE Substring(name1, 2)
         ELSE name1, LAMBDA name2 :
    \* the frame `context` starts at: the root, the frame made for `&`, this
    With(CASE firstChar = "#" -> 1 [] firstChar = "&" -> 0 [] OTHER -> Len(ctx),
         LAMBDA idx :
    With(/\ idx # 0
         /\ CacheGet(ctx[idx].cache, name2) # Undef, LAMBDA cached :
    With(Len(name2) >= 2 /\ name2[1] = "$" /\ name2[2] = ".", LAMBDA skipParents :
    With(IF ~cached /\ skipParents THEN Substring(name2, 2) ELSE name2, LAMBDA name :
    With(IF cached
         THEN [threw |-> FALSE, value |-> CacheGet(ctx[idx].cache, name2),
               functionPath |-> Undef]
         ELSE Walk(ctx, idx, name, skipParents), LAMBDA w :
    With(IF ~w.threw /\ w.value.t = "function"
         THEN ApplyFn(w.value.f, w.functionPath, args)
         ELSE [threw |-> w.threw, value |-> w.value], LAMBDA called :
    With(IF ~w.threw /\ w.value.t # "function" /\ idx # 0
         THEN [ctx EXCEPT ![idx].cache = (name :> w.value) @@ @]
         ELSE ctx, LAMBDA ctx1 :
        IF firstChar \in {"\"", "'"}
        THEN Result(ctx, Str(SubSeq(name1, 2, Len(name1) - 1)), FALSE, <<>>)
        ELSE IF called.threw THEN Result(ctx1, Undef, TRUE, <<>>)
        ELSE Result(ctx1, Negate(negate, called.value), FALSE, <<>>))))))))))))

\* a lookup that knows no reserved word
lookupUnreserved(ctx, name) == lookup(ctx, name, <<>>)

\* Context.prototype.lookupWithReserved, for a string
lookupWithReserved(ctx, name) ==
    CASE name = <<"u","n","d","e","f","i","n","e","d">> -> Result(ctx, Undef, FALSE, <<>>)
      [] name = <<"t","r","u","e">> -> Result(ctx, Bool(TRUE), FALSE, <<>>)
      [] name = <<"f","a","l","s","e">> -> Result(ctx, Bool(FALSE), FALSE, <<>>)
      [] name = <<"n","u","l","l">> -> Result(ctx, Null, FALSE, <<>>)
      [] OTHER -> IF IsNumeric(name) THEN Result(ctx, ParseInt(name), FALSE, <<>>)
                  ELSE lookup(ctx, name, <<>>)

(* Context.prototype.lookupWithReserved for an argument that need not be a
   string: the switch compares with ===, a number is not NaN and is parsed
   from its string. *)
lookupWithReservedOf(ctx, name) ==
    CASE name.t = "string" -> lookupWithReserved(ctx, name.s)
      [] name.t \in {"undefined", "boolean", "null"} -> Result(ctx, name, FALSE, <<>>)
      [] name.t = "number" -> Result(ctx, name, FALSE, <<>>)
      \* name.indexOf is not a function
      [] OTHER -> Result(ctx, Undef, TRUE, <<>>)

----------------------------------------------------------------------------
(* The conditions of `if` *)

\* string.split(/(a|b|...)/) for the ordered alternation ops of literals:
\* the pieces between the matches, with the matches kept
RECURSIVE SplitKeep(_, _, _, _)
SplitKeep(s, ops, i, piece) ==
    IF i > Len(s) THEN <<piece>>
    ELSE LET hit == {k \in 1..Len(ops) : OccursAt(s, i, ops[k])}
         IN  IF hit = {} THEN SplitKeep(s, ops, i + 1, Append(piece, s[i]))
             ELSE LET op == ops[CHOOSE k \in hit : \A j \in hit : k <= j]
                  IN  <<piece, op>> \o SplitKeep(s, ops, i + Len(op), <<>>)

AndOr == << <<"&","&">>, <<"|","|">> >>

Comparisons ==
    << <<"=","=","=">>, <<"!","=","=">>, <<"=","=">>, <<"!","=">>,
       <<">","=">>, <<"<","=">>, <<"<">>, <<">">> >>

\* the characters of the model in the order of their code units
CodeOrder ==
    <<"\t", "\n", " ", "!", "\"", "#", "$", "%", "&", "'", "(", ")", ",", "-",
      ".", "/", "0", "1", "2", "3", "4", "5", "6", "7", "8", "9", "<", "=",
      ">", "@", "[", "]", "a", "b", "c", "d", "e", "f", "g", "h", "i", "j",
      "k", "l", "m", "n", "o", "p", "q", "r", "s", "t", "u", "v", "w", "x",
      "y", "z", "{", "|", "}">>

CharCode(c) == IF \E i \in 1..Len(CodeOrder) : CodeOrder[i] = c
               THEN CHOOSE i \in 1..Len(CodeOrder) : CodeOrder[i] = c
               ELSE 0

RECURSIVE StringLess(_, _)
StringLess(a, b) ==
    IF b = <<>> THEN FALSE
    ELSE IF a = <<>> THEN TRUE
    ELSE IF a[1] = b[1] THEN StringLess(Tail(a), Tail(b))
    ELSE CharCode(a[1]) < CharCode(b[1])

\* ToNumber, NaN included
ToNumber(v) ==
    CASE v.t = "number" -> v
      [] v.t = "null" -> Num(0)
      [] v.t = "boolean" -> Num(IF v.b THEN 1 ELSE 0)
      [] v.t = "string" -> IF v.s = <<>> THEN Num(0)
                           ELSE IF IsNumeric(v.s) THEN ParseInt(v.s) ELSE NaN
      [] v.t = "array" -> IF v.a = <<>> THEN Num(0) ELSE NaN
      [] OTHER -> NaN

\* a < b
JsLess(a, b) ==
    IF a.t = "string" /\ b.t = "string" THEN StringLess(a.s, b.s)
    ELSE With(ToNumber(a), LAMBDA x :
         With(ToNumber(b), LAMBDA y :
             x.t = "number" /\ y.t = "number" /\ x.n < y.n))

\* a <= b
JsLessEq(a, b) ==
    IF a.t = "string" /\ b.t = "string" THEN ~StringLess(b.s, a.s)
    ELSE With(ToNumber(a), LAMBDA x :
         With(ToNumber(b), LAMBDA y :
             x.t = "number" /\ y.t = "number" /\ x.n <= y.n))

\* a === b; two objects are the same object when they are equal values
StrictEquals(a, b) == a.t # "NaN" /\ a = b

\* Writer.prototype.handleMultiPartIf
handleMultiPartIf(parts, ctx) ==
    With(lookupWithReserved(ctx, parts[1]), LAMBDA l :
    With(lookupWithReserved(l.ctx, parts[3]), LAMBDA r :
    With(l.errors \o r.errors, LAMBDA errors :
    With(parts[2], LAMBDA op :
    With(l.value, LAMBDA a :
    With(r.value, LAMBDA b :
        IF l.threw THEN l
        ELSE IF r.threw THEN [r EXCEPT !.errors = errors]
        ELSE CASE op = <<"=","=","=">> -> Result(r.ctx, Bool(StrictEquals(a, b)), FALSE, errors)
               [] op = <<"!","=","=">> -> Result(r.ctx, Bool(~StrictEquals(a, b)), FALSE, errors)
               [] op = <<">">> -> Result(r.ctx, Bool(JsLess(b, a)), FALSE, errors)
               [] op = <<">","=">> -> Result(r.ctx, Bool(JsLessEq(b, a)), FALSE, errors)
               [] op = <<"<">> -> Result(r.ctx, Bool(JsLess(a, b)), FALSE, errors)
               [] op = <<"<","=">> -> Result(r.ctx, Bool(JsLessEq(a, b)), FALSE, errors)
               [] OTHER -> Result(r.ctx, Undef, FALSE, Append(errors, "bad if operator"))))))))

\* one operand of a condition: its value as the handler computes it;
\* `single` says that the operand is the whole condition
IfOperand(operand, ctx, single) ==
    With(SplitKeep(operand, Comparisons, 1, <<>>), LAMBDA comp :
        IF Len(comp) = 1
        THEN With(IF single THEN lookup(ctx, comp[1], <<>>)
                  ELSE lookupWithReserved(ctx, comp[1]),
                  LAMBDA r : [r EXCEPT !.value = Bool(Truthy(r.value))])
        ELSE handleMultiPartIf(comp, ctx))

(* The do-while loop of the handler over the parts of a condition with &&
   or ||.  parts holds strings (operands not yet evaluated, separators) as
   Str values and evaluated operands as they are.  The result's value is
   Bool(apply). *)
RECURSIVE IfLoop(_, _, _, _)
IfLoop(parts, x, ctx, errors) ==
    LET n == Len(parts)
        p == parts[x + 1]
        isSep(v) == v \in {Str(AndOr[1]), Str(AndOr[2])}
        next(ps, c, es) == IF x + 1 < n THEN IfLoop(ps, x + 1, c, es)
                           ELSE Result(c, Bool(FALSE), FALSE, es)
    IN  IF ~isSep(p)
        THEN With(IfOperand(p.s, ctx, FALSE), LAMBDA r :
             With(IF x # 0 /\ parts[x] = Str(AndOr[1])
                  THEN IF Truthy(parts[x - 1]) THEN r.value ELSE parts[x - 1]
                  ELSE r.value, LAMBDA v :
             With(errors \o r.errors, LAMBDA es :
                 IF r.threw THEN [r EXCEPT !.errors = es]
                 ELSE IF x = n - 1 /\ Truthy(v) THEN Result(r.ctx, Bool(TRUE), FALSE, es)
                 ELSE next([parts EXCEPT ![x + 1] = v], r.ctx, es))))
        ELSE IF x > 0 /\ parts[x] = Bool(TRUE) /\ p = Str(AndOr[2])
        THEN Result(ctx, Bool(TRUE), FALSE, errors)
        ELSE next(parts, ctx, errors)

\* the value of `apply` before the search for else
IfCondition(payload, ctx) ==
    With(SplitKeep(StripSpaces(payload), AndOr, 1, <<>>), LAMBDA split :
        IF Len(split) = 1 THEN IfOperand(split[1], ctx, TRUE)
        ELSE IfLoop([i \in 1..Len(split) |-> Str(split[i])], 0, ctx, <<>>))

----------------------------------------------------------------------------
(* Writer: the template cache and rendering.  The cache is the sequence of
   its entries in insertion order; an entry whose parse threw has no
   `tokens`.  env holds what rendering reads of the process-wide state:
   [cache, tokenHandlers].  A handler returns [out, ctx, threw, errors,
   pid]: the value returned, the context as it leaves it, whether an
   exception escaped, the errors reported and pid: promiseElementId with
   the callbacks promise.then was given since the render began. *)

MaxStack == 4    \* nested renderTokens calls the host's stack allows

HasTemplate(c, name) == \E i \in 1..Len(c) : c[i].name = name

CacheEntry(c, name) == c[CHOOSE i \in 1..Len(c) : c[i].name = name]

HasTokens(entry) == "tokens" \in DOMAIN entry

entityMap(c) ==
    CASE c = "<" -> <<"&","l","t",";">>
      [] c = ">" -> <<"&","g","t",";">>
      [] c = "'" -> <<"&","#","3","9",";">>
      [] c = "\"" -> <<"&","q","u","o","t",";">>
      [] OTHER -> <<c>>

RECURSIVE Flatten(_)
Flatten(strs) == IF strs = <<>> THEN <<>> ELSE strs[1] \o Flatten(Tail(strs))

escapeHtml(value) ==
    LET string == JsString(value)
    IN  Flatten([i \in 1..Len(string) |-> entityMap(string[i])])

\* the replacement a caller may assign to late.escape
userEscape(value) == <<"@">> \o JsString(value)

Pid(id) == [id |-> id, then |-> <<>>]

Out(out, ctx, threw, errors, pid) ==
    [out |-> out, ctx |-> ctx, threw |-> threw, errors |-> errors, pid |-> pid]

\* string.split(/[\[\]]/)
RECURSIVE SplitBrackets(_)
SplitBrackets(s) ==
    LET hit == {i \in 1..Len(s) : s[i] \in {"[", "]"}}
    IN  IF hit = {} THEN <<s>>
        ELSE LET i == CHOOSE k \in hit : \A j \in hit : k <= j
             IN  <<SubSeq(s, 1, i - 1)>> \o SplitBrackets(SubSeq(s, i + 1, Len(s)))

\* Object.keys of an object of the model: its keys in code-unit order
RECURSIVE SortedKeys(_)
SortedKeys(keys) ==
    IF keys = {} THEN <<>>
    ELSE LET k == CHOOSE a \in keys : \A b \in keys : a = b \/ StringLess(a, b)
         IN  <<k>> \o SortedKeys(keys \ {k})

PromisePlaceholder(id) ==
    <<"<","t","e","m","p","l","a","t","e"," ","i","d","=","\"","l","a","t","e",
      "P","r","o","m","i","s","e","-">> \o NatToString(id)
        \o <<"\"",">","<","/","t","e","m","p","l","a","t","e",">">>

Index == <<"$","i","n","d","e","x">>
Value == <<"$","v","a","l","u","e">>

RECURSIVE renderTokens(_, _, _, _, _)
RECURSIVE Handle(_, _, _, _, _, _)
RECURSIVE EachLoop(_, _, _, _, _, _, _)

\* tokenHandlers.name
NameHandler(token, ctx, pid) ==
    IF IndexOf(token.value, "[") > 0
    THEN With(SplitBrackets(token.value), LAMBDA parts :
         With(lookup(ctx, parts[1], <<>>), LAMBDA base :
         With(lookup(base.ctx, parts[2], <<>>), LAMBDA index :
         With(IF Truthy(index.value) THEN JsString(index.value) ELSE parts[2],
              LAMBDA key :
         With(GetProp(base.value, key), LAMBDA got :
         With(base.errors \o index.errors, LAMBDA errors :
             IF base.threw THEN Out(Undef, base.ctx, TRUE, base.errors, pid)
             ELSE IF index.threw \/ got.threw
             THEN Out(Undef, index.ctx, TRUE, errors, pid)
             ELSE Out(Str(escapeHtml(got.value)), index.ctx, FALSE, errors, pid)))))))
    ELSE With(lookup(ctx, token.value, <<>>), LAMBDA r :
             IF r.threw THEN Out(Undef, r.ctx, TRUE, r.errors, pid)
             ELSE Out(Str(escapeHtml(r.value)), r.ctx, FALSE, r.errors, pid))

\* the body of a section rendered in a child frame; the child is dropped
Section(tokens, ctx, view, env, pid, depth) ==
    With(renderTokens(tokens, push(ctx, view), env, pid, depth), LAMBDA r :
        Out(Str(r.buffer), SubSeq(r.ctx, 1, Len(ctx)), r.threw, r.errors, r.pid))

\* the for loops of tokenHandlers.each; views[x] is what is pushed at step x
\* (Null where the source throws for it)
EachLoop(token, views, x, ctx, env, pid, depth) ==
    IF x > Len(views) THEN Out(Str(<<>>), ctx, FALSE, <<>>, pid)
    ELSE IF views[x] = Null THEN Out(Undef, ctx, TRUE, <<>>, pid)
    ELSE With(Section(token.children, ctx, views[x], env, pid, depth), LAMBDA r :
             IF r.threw THEN r
             ELSE With(EachLoop(token, views, x + 1, r.ctx, env, r.pid, depth),
                       LAMBDA rest :
                      [rest EXCEPT !.out = IF rest.threw THEN Undef
                                           ELSE Str(r.out.s \o rest.out.s),
                                   !.errors = r.errors \o @]))

\* what tokenHandlers.each pushes for the items of the value it iterates
EachViews(value) ==
    IF value.t = "array"
    THEN [x \in 1..Len(value.a) |->
            CASE value.a[x].t = "object" ->
                    Obj((Index :> Num(x - 1)) @@ value.a[x].o)
              [] value.a[x].t \in {"array", "promise"} -> value.a[x]
              [] value.a[x].t = "null" -> Null
              [] OTHER -> Obj((Index :> Num(x - 1)) @@ (Value :> value.a[x]))]
    ELSE IF value.t = "object"
    THEN With(SortedKeys(DOMAIN value.o), LAMBDA keys :
             [x \in 1..Len(keys) |->
                 Obj((Index :> Str(keys[x])) @@ (Value :> value.o[keys[x]]))])
    ELSE <<>>

(* tokenHandlers.each.  The assignment value[x].$index = x is kept in the
   view that is pushed. *)
EachHandler(token, ctx, env, pid, depth) ==
    With(lookup(ctx, token.value, <<>>), LAMBDA l :
    With(IF ~l.threw /\ l.value.t = "function"
         THEN ApplyFn(l.value.f, ctx[Len(ctx)].view, <<>>)
         ELSE [threw |-> l.threw, value |-> l.value], LAMBDA called :
    With(called.value, LAMBDA value :
    With(IF called.threw THEN Out(Undef, l.ctx, TRUE, <<>>, pid)
         ELSE IF ~Truthy(l.value) \/ value = Undef
         THEN Out(Undef, l.ctx, FALSE, <<>>, pid)
         \* Object.keys(null) throws
         ELSE IF value.t = "null" THEN Out(Undef, l.ctx, TRUE, <<>>, pid)
         ELSE IF value.t \in {"array", "object", "promise"}
         THEN EachLoop(token, EachViews(value), 1, l.ctx, env, pid, depth)
         ELSE Section(token.children, l.ctx, value, env, pid, depth), LAMBDA r :
        [r EXCEPT !.errors = l.errors \o @]))))

\* tokenHandlers.get
GetHandler(token, ctx, env, pid, depth) ==
    With(lookup(ctx, token.value, <<>>), LAMBDA l :
    With(IF l.threw THEN Out(Undef, l.ctx, TRUE, <<>>, pid)
         ELSE IF ~Truthy(l.value) THEN Out(Undef, l.ctx, FALSE, <<>>, pid)
         ELSE Section(token.children, l.ctx, l.value, env, pid, depth), LAMBDA r :
        [r EXCEPT !.errors = l.errors \o @]))

\* a bind that reads promiseElementId after the increment
BoundAfterIncrement(id) == id + 1

\* function(users) {...}.bind(promiseElementId): the `this` of the callback
BoundThis(id) == id

(* tokenHandlers.promise, up to its return: the callback is given to
   promise.then with what it closes over (token, context) and runs later;
   `emitted` is the identifier in the placeholder that is returned. *)
PromiseHandler(token, ctx, pid) ==
    With(lookup(ctx, token.value, <<>>), LAMBDA l :
        IF l.threw THEN Out(Undef, l.ctx, TRUE, l.errors, pid)
        ELSE IF l.value.t = "promise"
        THEN Out(Str(PromisePlaceholder(pid.id)), l.ctx, FALSE, l.errors,
                 [id |-> pid.id + 1,
                  then |-> Append(pid.then,
                                  [promise |-> l.value, this |-> BoundThis(pid.id),
                                   emitted |-> pid.id, token |-> token,
                                   context |-> l.ctx])])
        ELSE Out(Str(<<>>), l.ctx, FALSE, Append(l.errors, "not a Promise"), pid))

\* the loop of the callback over users: Out with the buffer
RECURSIVE ThenLoop(_, _, _, _, _, _)
ThenLoop(token, users, x, ctx, env, pid) ==
    IF x > Len(users) THEN Out(Str(<<>>), ctx, FALSE, <<>>, pid)
    ELSE With(Section(token.children, ctx, users[x], env, pid, 0), LAMBDA r :
             IF r.threw THEN r
             ELSE With(ThenLoop(token, users, x + 1, r.ctx, env, r.pid), LAMBDA rest :
                      [rest EXCEPT !.out = IF rest.threw THEN Undef
                                           ELSE Str(r.out.s \o rest.out.s),
                                   !.errors = r.errors \o @]))

(* The callback given to promise.then, run with the value users the
   promise is fulfilled with, up to the buffer; token and context are those
   the handler was called with.  A token without children throws in
   renderTokens. *)
ThenBuffer(callback, users, env, pid) ==
    IF ~HasChildren(callback.token) THEN Out(Undef, callback.context, TRUE, <<>>, pid)
    ELSE ThenLoop(callback.token, IF users.t = "array" THEN users.a ELSE <<users>>,
                  1, callback.context, env, pid)

\* document.getElementById(`latePromise-${this}`): the element asked for
Container(callback) == PromisePlaceholder(callback.this)

\* the rendering of a token list as a handler returns it
Rendered(tokens, ctx, env, pid, depth, errors) ==
    With(renderTokens(tokens, ctx, env, pid, depth), LAMBDA r :
        Out(Str(r.buffer), r.ctx, r.threw, errors \o r.errors, r.pid))

\* an if that knows no else: all the children or nothing
IfHandlerAllChildren(token, ctx, env, pid, depth) ==
    With(IfCondition(token.value, ctx), LAMBDA c :
        IF c.threw THEN Out(Undef, c.ctx, TRUE, c.errors, pid)
        ELSE IF Truthy(c.value)
        THEN Rendered(token.children, c.ctx, env, pid, depth, c.errors)
        ELSE Out(Undef, c.ctx, FALSE, c.errors, pid))

\* tokenHandlers.if
IfHandler(token, ctx, env, pid, depth) ==
    With(IfCondition(token.value, ctx), LAMBDA c :
    With(token.children, LAMBDA kids :
    With({x \in 1..Len(kids) : kids[x].kind = S_else}, LAMBDA elses :
    With(IF elses = {} THEN 0 ELSE CHOOSE e \in elses : \A j \in elses : e <= j,
         LAMBDA x :
        IF c.threw THEN Out(Undef, c.ctx, TRUE, c.errors, pid)
        ELSE IF elses # {} \/ Truthy(c.value)
        THEN Rendered(IF elses = {} THEN kids
                      ELSE IF Truthy(c.value) THEN SubSeq(kids, 1, x - 1)
                      ELSE SubSeq(kids, x + 1, Len(kids)),
                      c.ctx, env, pid, depth, c.errors)
        ELSE Out(Undef, c.ctx, FALSE, c.errors, pid)))))

\* tokenHandlers['%']
SubTemplateHandler(token, ctx, env, pid, depth) ==
    With(lookup(ctx, token.value, <<>>), LAMBDA l :
    With(IF Truthy(l.value) THEN JsString(l.value) ELSE token.value,
         LAMBDA templateName :
        IF l.threw THEN Out(Undef, l.ctx, TRUE, l.errors, pid)
        ELSE IF ~HasTemplate(env.cache, templateName)
        THEN Out(Undef, l.ctx, FALSE,
                 l.errors \o <<"getTemplate: does not exist", "inner template not found">>, pid)
        ELSE With(CacheEntry(env.cache, templateName), LAMBDA entry :
                 IF ~HasTokens(entry) THEN Out(Undef, l.ctx, TRUE, l.errors, pid)
                 ELSE Rendered(entry.tokens, l.ctx, env, pid, depth, l.errors))))

\* the call tokenHandlers[token[0]](token, context, this) of the handler h
Handle(h, token, ctx, env, pid, depth) ==
    CASE h = "text" -> Out(Str(token.value), ctx, FALSE, <<>>, pid)
      [] h = "name" -> NameHandler(token, ctx, pid)
      [] h \in {">", ">>"} ->
            With(functionCall(ctx, token.value), LAMBDA r :
                Out(IF h = ">" THEN Undef ELSE r.value, r.ctx, r.threw, r.errors, pid))
      [] h = "%" -> SubTemplateHandler(token, ctx, env, pid, depth)
      [] h = "if" -> IfHandler(token, ctx, env, pid, depth)
      [] h = "each" -> EachHandler(token, ctx, env, pid, depth)
      [] h = "get" -> GetHandler(token, ctx, env, pid, depth)
      [] h = "promise" -> PromiseHandler(token, ctx, pid)
      [] h = "html" ->
            With(lookup(ctx, token.value, <<>>), LAMBDA r :
                Out(r.value, r.ctx, r.threw, r.errors, pid))
      \* a handler a caller registers for a leaf kind: it returns its payload
      [] h = "userLeaf" -> Out(Str(<<"@">> \o token.value), ctx, FALSE, <<>>, pid)
      \* a handler a caller registers for a section kind:
      \* return writer.renderTokens(token[4], context)
      [] h = "userSection" ->
            IF ~HasChildren(token) THEN Out(Undef, ctx, TRUE, <<>>, pid)
            ELSE Rendered(token.children, ctx, env, pid, depth, <<>>)

(* Writer.prototype.renderTokens: [buffer, ctx, threw, errors, pid].  depth
   counts the renderTokens calls on the stack; beyond MaxStack the host
   throws a RangeError. *)
RECURSIVE RenderLoop(_, _, _, _, _, _, _)
RenderLoop(tokens, i, buffer, ctx, env, pid, depth) ==
    IF i > Len(tokens)
    THEN [buffer |-> buffer, ctx |-> ctx, threw |-> FALSE, errors |-> <<>>, pid |-> pid]
    ELSE IF tokens[i].kind \notin DOMAIN env.tokenHandlers
    THEN RenderLoop(tokens, i + 1, buffer, ctx, env, pid, depth)
    ELSE With(Handle(env.tokenHandlers[tokens[i].kind], tokens[i], ctx, env, pid, depth),
              LAMBDA r :
             IF r.threw
             THEN [buffer |-> buffer, ctx |-> r.ctx, threw |-> TRUE,
                   errors |-> r.errors, pid |-> r.pid]
             ELSE With(RenderLoop(tokens, i + 1,
                                  IF r.out = Undef THEN buffer
                                  ELSE buffer \o JsString(r.out),
                                  r.ctx, env, r.pid, depth),
                       LAMBDA rest : [rest EXCEPT !.errors = r.errors \o @]))

renderTokens(tokens, ctx, env, pid, depth) ==
    IF depth >= MaxStack
    THEN [buffer |-> <<>>, ctx |-> ctx, threw |-> TRUE, errors |-> <<>>, pid |-> pid]
    ELSE RenderLoop(tokens, 1, <<>>, ctx, env, pid, depth + 1)

----------------------------------------------------------------------------
(* The facade `late` and its default writer.  Every action is one call of
   the public API; `last` records the call, what it returned, whether it
   threw and the errors it reported. *)

DefaultTagReList == <<S_gt, S_gtgt, S_pct, S_if, S_html, S_each, S_get, S_promise>>

DefaultTags == << <<"{","{">>, <<"}","}">> >>

DefaultHandlers ==
    (S_gt :> ">") @@ (S_gtgt :> ">>") @@ (S_pct :> "%") @@ (S_each :> "each")
        @@ (S_promise :> "promise") @@ (S_get :> "get") @@ (S_html :> "html")
        @@ (S_if :> "if") @@ (S_name :> "name") @@ (S_text :> "text")

\* the object assigned to late.tags, with its methods get and set
TagsObject == [t |-> "object with get and set"]

Call(op, name, source, view, ret, threw, errors) ==
    [op |-> op, name |-> name, source |-> source, view |-> view,
     ret |-> ret, threw |-> threw, errors |-> errors]

NoCall == Call("none", <<>>, <<>>, Undef, Undef, FALSE, <<>>)

Env == [cache |-> cache, tokenHandlers |-> tokenHandlers]

\* a cache that keeps every entry ever written
CachePutAppends(c, entry) == Append(c, entry)

\* this.cache[name] = entry
CachePut(c, entry) ==
    IF HasTemplate(c, entry.name)
    THEN [i \in 1..Len(c) |-> IF c[i].name = entry.name THEN entry ELSE c[i]]
    ELSE Append(c, entry)

\* Writer.prototype.exists
exists(name) == HasTemplate(cache, name)

\* Writer.prototype.listTemplates
listTemplates == [i \in 1..Len(cache) |-> cache[i].name]

\* late.parse -> Writer.prototype.parse
Parse(name, template) ==
    \E r \in {parseTemplate(name, template)} :
        /\ cache' = CachePut(cache,
                        IF r.threw THEN [name |-> name, template |-> template]
                        ELSE [name |-> name, template |-> template,
                              tokens |-> r.tokens])
        /\ last' = Call("parse", name, template, Undef, Undef, r.threw, r.errors)
        /\ UNCHANGED <<current, tagReList, tokenHandlers, tags, lateTags, lateEscape,
                       promiseElementId, input, theContext, promises>>

\* late.clearCache -> Writer.prototype.clearCache
ClearCache ==
    /\ cache' = <<>>
    /\ last' = Call("clearCache", <<>>, <<>>, Undef, Undef, FALSE, <<>>)
    /\ UNCHANGED <<current, tagReList, tokenHandlers, tags, lateTags, lateEscape,
                   promiseElementId, input, theContext, promises>>

\* the callbacks as promise.then holds them until the promise settles
Registered(then) == [i \in 1..Len(then) |-> [state |-> "pending"] @@ then[i]]

\* late.render -> Writer.prototype.render, with getTemplate
Render(templateName, view) ==
    \E found \in {HasTemplate(cache, templateName)} :
    \E r \in {IF found /\ HasTokens(CacheEntry(cache, templateName))
              THEN renderTokens(CacheEntry(cache, templateName).tokens, Context(view),
                                Env, Pid(promiseElementId), 0)
              ELSE [buffer |-> <<>>, threw |-> TRUE, errors |-> <<>>,
                    pid |-> Pid(promiseElementId)]} :
        /\ current' = templateName
        /\ promiseElementId' = r.pid.id
        /\ promises' = promises \o Registered(r.pid.then)
        /\ last' = Call("render", templateName, <<>>, view,
                        IF r.threw THEN Undef ELSE Str(r.buffer), r.threw,
                        (IF found THEN <<>> ELSE <<"getTemplate: does not exist">>)
                            \o r.errors)
        /\ UNCHANGED <<history, cache, tagReList, tokenHandlers, tags, lateTags,
                       lateEscape, input, theContext>>

(* The promise of the i-th callback is fulfilled and the callback runs;
   attached says whether the element it asks the document for is there.
   An exception in the callback goes to the function given to catch, which
   reports it. *)
Then(i, attached) ==
    /\ promises[i].state = "pending"
    /\ \E r \in {ThenBuffer(promises[i], promises[i].promise.p, Env,
                             Pid(promiseElementId))} :
           /\ promiseElementId' = r.pid.id
           /\ promises' =
                  [k \in 1..Len(promises) |->
                      IF k # i THEN promises[k]
                      ELSE IF r.threw \/ ~attached
                      THEN [state |-> "failed"] @@ promises[i]
                      ELSE [state |-> "replaced", container |-> Container(promises[i]),
                            innerHTML |-> r.out.s] @@ promises[i]]
                      \o Registered(r.pid.then)
           /\ last' = Call("then", <<>>, <<>>, promises[i].promise.p,
                           IF r.threw THEN Undef ELSE r.out, FALSE,
                           r.errors \o (IF r.threw \/ ~attached
                                        THEN <<"promise exception">> ELSE <<>>))
    /\ UNCHANGED <<history, cache, current, tagReList, tokenHandlers, tags, lateTags,
                   lateEscape, input, theContext>>

\* the promise of the i-th callback is rejected: catch reports the error
Catch(i) ==
    /\ promises[i].state = "pending"
    /\ promises' = [promises EXCEPT ![i] = [state |-> "rejected"] @@ @]
    /\ last' = Call("catch", <<>>, <<>>, Undef, Undef, FALSE, <<"promise exception">>)
    /\ UNCHANGED <<history, cache, current, tagReList, tokenHandlers, tags, lateTags,
                   lateEscape, promiseElementId, input, theContext>>

\* late.addTokenHandler
AddTokenHandler(name, handler) ==
    /\ IF \A i \in 1..Len(tagReList) : tagReList[i] # name
       THEN /\ tagReList' = Append(tagReList, name)
            /\ tokenHandlers' = (name :> handler) @@ tokenHandlers
            /\ last' = Call("addTokenHandler", name, <<>>, Undef, Undef, FALSE, <<>>)
       ELSE /\ UNCHANGED <<tagReList, tokenHandlers>>
            /\ last' = Call("addTokenHandler", name, <<>>, Undef, Undef, FALSE,
                            <<"already exists as token handler">>)
    /\ UNCHANGED <<history, cache, current, tags, lateTags, lateEscape,
                   promiseElementId, input, theContext, promises>>

\* late.tags.set(override), for an array override; when late.tags has been
\* assigned an array, late.tags.set is not a function and the call throws
TagsSet(override) ==
    /\ IF lateTags = TagsObject
       THEN /\ tags' = override
            /\ last' = Call("tags.set", <<>>, <<>>, Arr(override), Undef, FALSE,
                            IF Len(override) # 2 THEN <<"Invalid tags">> ELSE <<>>)
       ELSE /\ tags' = tags
            /\ last' = Call("tags.set", <<>>, <<>>, Arr(override), Undef, TRUE, <<>>)
    /\ UNCHANGED <<history, cache, current, tagReList, tokenHandlers, lateTags,
                   lateEscape, promiseElementId, input, theContext, promises>>

\* late.tags = override
AssignTags(override) ==
    /\ lateTags' = Arr(override)
    /\ last' = Call("tags =", <<>>, <<>>, Arr(override), Undef, FALSE, <<>>)
    /\ UNCHANGED <<history, cache, current, tagReList, tokenHandlers, tags,
                   lateEscape, promiseElementId, input, theContext, promises>>

\* late.escape = f
AssignEscape(f) ==
    /\ lateEscape' = f
    /\ last' = Call("escape =", <<>>, <<>>, Undef, Undef, FALSE, <<>>)
    /\ UNCHANGED <<history, cache, current, tagReList, tokenHandlers, tags,
                   lateTags, promiseElementId, input, theContext, promises>>

\* the state after the script has run
Loaded ==
    /\ history = <<>>
    /\ cache = <<>>
    /\ current = <<>>
    /\ tagReList = DefaultTagReList
    /\ tokenHandlers = DefaultHandlers
    /\ tags = DefaultTags
    /\ lateTags = TagsObject
    /\ lateEscape = "escapeHtml"
    /\ promiseElementId = 0
    /\ last = NoCall
    /\ theContext = <<>>
    /\ promises = <<>>

----------------------------------------------------------------------------
(* The cache under parse, clearCache and render calls *)

MaxCalls == 4    \* parse and clearCache calls recorded in `history`

N_t == <<"t">>
N_u == <<"u">>
Names == {N_t, N_u}

Open == <<"{","{">>
Close == <<"}","}">>

\* a{{v}}   {{/if}}   {{% u}}
CacheSources ==
    { <<"a">> \o Open \o <<"v">> \o Close,
      Open \o <<"/","i","f">> \o Close,
      Open \o <<"%"," ","u">> \o Close }

CacheViews == { Obj(<<"v">> :> Str(<<"<","b",">">>)) }

NoInput == [source |-> <<>>, view |-> Undef]

Init == Loaded /\ input = NoInput

ParseLogged(name, template) ==
    /\ Len(history) < MaxCalls
    /\ Parse(name, template)
    /\ history' = Append(history, [op |-> "parse", name |-> name, template |-> template])

ClearCacheLogged ==
    /\ Len(history) < MaxCalls
    /\ ClearCache
    /\ history' = Append(history, [op |-> "clearCache", name |-> <<>>, template |-> <<>>])

Next ==
    \/ \E name \in Names, template \in CacheSources : ParseLogged(name, template)
    \/ ClearCacheLogged
    \/ \E name \in Names, view \in CacheViews : Render(name, view)

Spec == Init /\ [][Next]_vars

\* the calls since the most recent clearCache
LastClear ==
    LET clears == {i \in 1..Len(history) : history[i].op = "clearCache"}
    IN  IF clears = {} THEN 0 ELSE CHOOSE i \in clears : \A j \in clears : j <= i

ParsedSince == {history[i].name : i \in (LastClear + 1)..Len(history)}

LatestParse(name) ==
    LET is == {i \in (LastClear + 1)..Len(history) : history[i].name = name}
    IN  history[CHOOSE i \in is : \A j \in is : j <= i]

(* C1: after any sequence of parse and clearCache calls the cache is the
   map from each name parsed since the most recent clearCache to the
   result of its most recent parse: exists is true exactly for those
   names, listTemplates returns exactly those names, each once, an entry
   holds the source and the tree of the latest parse of its name (no tree
   when that parse threw), and a render that returns emits the rendering
   of that tree. *)
C1_CacheIsLatestParses ==
    /\ \A name \in Names : exists(name) <=> name \in ParsedSince
    /\ {listTemplates[i] : i \in 1..Len(listTemplates)} = ParsedSince
    /\ \A i, j \in 1..Len(listTemplates) : listTemplates[i] = listTemplates[j] => i = j
    /\ \A name \in ParsedSince :
          LET entry == CacheEntry(cache, name)
              r == parseTemplate(name, LatestParse(name).template)
          IN  /\ entry.template = LatestParse(name).template
              /\ HasTokens(entry) <=> ~r.threw
              /\ HasTokens(entry) => entry.tokens = r.tokens
    /\ (last.op = "render" /\ ~last.threw) =>
          /\ last.name \in ParsedSince
          /\ last.ret = Str(renderTokens(
                 parseTemplate(last.name, LatestParse(last.name).template).tokens,
                 Context(last.view), Env, Pid(promiseElementId), 0).buffer)

\* u is parsed and dropped by clearCache, t is parsed twice with different
\* sources, and t is rendered
C1_Witness ==
    /\ Len(history) = 4
    /\ history[1].op = "parse" /\ history[1].name = N_u
    /\ history[2].op = "clearCache"
    /\ history[3].op = "parse" /\ history[3].name = N_t
    /\ history[4].op = "parse" /\ history[4].name = N_t
    /\ history[4].template # history[3].template
    /\ listTemplates = <<N_t>>
    /\ last.op = "render" /\ last.name = N_t /\ ~last.threw

(* C2: render of a name that has no cached entry reports an error and
   returns without throwing. *)
C2_RenderOfMissingReturns ==
    (last.op = "render" /\ ~exists(last.name)) =>
        /\ ~last.threw
        /\ last.errors # <<>>

(* C29: after any sequence of parse and clearCache calls, parses of
   sources with structural errors included, every name for which exists
   is true has an entry whose token list is defined. *)
C29_EntriesHoldTrees ==
    \A name \in Names : exists(name) => HasTokens(CacheEntry(cache, name))

(* C30: when every cache entry holds a token tree, render of a cached
   template returns a string, whatever sub-template references the cached
   templates hold. *)
C30_RenderReturnsString ==
    (last.op = "render" /\ exists(last.name)
        /\ \A name \in Names :
              exists(name) => HasTokens(CacheEntry(cache, name))) =>
        /\ ~last.threw
        /\ last.ret.t = "string"

----------------------------------------------------------------------------
(* One source parsed and rendered once.  The source is a concatenation of
   up to MaxPieces pieces: text, white space, directives of every form,
   section openers and closers in any order, a tag left open. *)

MaxPieces == 3

SourcePieces ==
    { <<"a">>, <<" ">>, <<"\t">>,
      Open \o <<"v">> \o Close,                                   \* {{v}}
      Open \o <<"v","[","0","]">> \o Close,                       \* {{v[0]}}
      Open \o <<"v",".","w">> \o Close,                           \* {{v.w}}
      Open \o <<">",">"," ","S","t","r","i","n","g","(","v",")">> \o Close,
      Open \o <<"%"," ","u">> \o Close,                           \* {{% u}}
      Open \o <<"i","f"," ","v">> \o Close,                       \* {{if v}}
      Open \o <<"e","a","c","h"," ","v">> \o Close,               \* {{each v}}
      Open \o <<"e","l","s","e">> \o Close,                       \* {{else}}
      Open \o <<"/","i","f">> \o Close,                           \* {{/if}}
      Open \o <<"/","e","a","c","h">> \o Close,                   \* {{/each}}
      Open \o <<"v">> }                                           \* {{v

SourceViews == { EmptyObject, Obj(<<"v">> :> Arr(<<Str(<<"<">>)>>)) }

SourceInputs ==
    { [source |-> Flatten(pieces), view |-> view] :
        pieces \in UNION {[1..n -> SourcePieces] : n \in 0..MaxPieces},
        view \in SourceViews }

InitSource == Loaded /\ input \in SourceInputs

\* late.parse('t', source)
ParseInput ==
    /\ last = NoCall
    /\ Parse(N_t, input.source)
    /\ UNCHANGED history

\* late.render('t', view)
RenderInput ==
    /\ last.op = "parse"
    /\ Render(N_t, input.view)

NextSource == ParseInput \/ RenderInput

SpecSource == InitSource /\ [][NextSource]_vars

(* C3: parse of a source returns a tree, whatever structural error the
   source contains (an unclosed tag, a close tag or an else met while no
   section is open, a close tag of another kind than the open section, an
   else in a section that is not an if): the call never ends with an
   exception. *)
C3_ParseNeverThrows == last.op = "parse" => ~last.threw

\* late.parse(name, source) and late.render(name, view) in the current
\* state, as a value: whether the calls threw and what render returned
RenderSource(source, view) ==
    With(parseTemplate(N_t, source), LAMBDA p :
        IF p.threw THEN [threw |-> TRUE, ret |-> Undef]
        ELSE With(renderTokens(p.tokens, Context(view), Env, Pid(promiseElementId), 0),
                  LAMBDA r : [threw |-> r.threw,
                              ret |-> IF r.threw THEN Undef ELSE Str(r.buffer)]))

(* C4: render against the empty view {} of a template that parsed without
   a reported error returns a string and does not throw. *)
C4_RenderOfCleanTemplateDefined ==
    (/\ last.op = "render"
     /\ input.view = EmptyObject
     /\ ~parseTemplate(N_t, input.source).threw
     /\ parseTemplate(N_t, input.source).errors = <<>>) =>
        /\ ~last.threw
        /\ last.ret.t = "string"

\* N(S): S with every run of spaces collapsed to one space and all tabs
\* and newlines removed
Normalized(s) ==
    LET collapsed[i \in 0..Len(s)] ==
            IF i = 0 THEN <<>>
            ELSE IF s[i] = " " /\ i > 1 /\ s[i - 1] = " " THEN collapsed[i - 1]
            ELSE Append(collapsed[i - 1], s[i])
    IN  SelectSeq(collapsed[Len(s)], LAMBDA c : c \notin {"\t", "\n"})

(* C5: rendering a source S gives what rendering N(S) gives; the
   scanner's normalization is idempotent, and the normalized source holds
   no tab, no newline and no two adjacent spaces. *)
C5_NormalizationInvisible ==
    last.op = "render" =>
        /\ [threw |-> last.threw, ret |-> last.ret]
              = RenderSource(Normalized(input.source), input.view)
        /\ ScannerFix(ScannerFix(input.source)) = ScannerFix(input.source)
        /\ \A i \in 1..Len(ScannerFix(input.source)) :
              /\ ScannerFix(input.source)[i] \notin {"\t", "\n"}
              /\ i > 1 => ~(ScannerFix(input.source)[i] = " "
                            /\ ScannerFix(input.source)[i - 1] = " ")

----------------------------------------------------------------------------
(* Handler registration: addTokenHandler for a new kind k and for kinds
   that have a handler already, with parses and renders in between. *)

S_k == <<"k">>

HandlerKinds == {S_k, S_name, S_if}

UserHandlers == {"userLeaf", "userSection"}

KLeafSource == Open \o <<"k"," ","v">> \o Close                    \* {{k v}}

KSectionSource ==                                                 \* {{k v}}a{{/k}}
    Open \o <<"k"," ","v">> \o Close \o <<"a">> \o Open \o <<"/","k">> \o Close

HandlerSources ==
    { KLeafSource, KSectionSource,
      Open \o <<"v">> \o Close,                                                \* {{v}}
      Open \o <<"i","f"," ","v">> \o Close \o <<"a">> \o Open \o <<"/","i","f">> \o Close }

HandlerViews == { Obj(<<"v">> :> Str(<<"<">>)) }

InitHandlers == Loaded /\ input = NoInput

ParseHandled(template) == Parse(N_t, template) /\ UNCHANGED history

NextHandlers ==
    \/ \E name \in HandlerKinds, handler \in UserHandlers : AddTokenHandler(name, handler)
    \/ \E template \in HandlerSources : ParseHandled(template)
    \/ \E view \in HandlerViews : Render(N_t, view)

SpecHandlers == InitHandlers /\ [][NextHandlers]_vars

(* C6: once a handler is registered for the new kind k, a parse tokenizes
   {{k v}} as a token of kind k with the payload v, and a render hands
   that token to the registered handler; and a parse of {{k v}}a{{/k}}
   reports no error and returns one k token whose child list is the text
   between the opener and {{/k}}. *)
C6_RegisteredKindParsedAndBalanced ==
    /\ (last.op = "parse" /\ S_k \in DOMAIN tokenHandlers
            /\ last.source = KLeafSource) =>
          /\ ~last.threw
          /\ last.errors = <<>>
          /\ CacheEntry(cache, N_t).tokens = <<Token(S_k, <<"v">>, 0, 7)>>
    /\ (last.op = "render" /\ S_k \in DOMAIN tokenHandlers
            /\ exists(N_t)
            /\ HasTokens(CacheEntry(cache, N_t))
            /\ CacheEntry(cache, N_t).tokens = <<Token(S_k, <<"v">>, 0, 7)>>) =>
          With(Handle(tokenHandlers[S_k], Token(S_k, <<"v">>, 0, 7),
                      Context(last.view), Env, Pid(promiseElementId), 1), LAMBDA r :
              /\ last.threw = r.threw
              /\ ~r.threw => last.ret = Str(JsString(r.out)))
    /\ (last.op = "parse" /\ S_k \in DOMAIN tokenHandlers
            /\ last.source = KSectionSource) =>
          /\ ~last.threw
          /\ last.errors = <<>>
          /\ Len(CacheEntry(cache, N_t).tokens) = 1
          /\ CacheEntry(cache, N_t).tokens[1].kind = S_k
          /\ HasChildren(CacheEntry(cache, N_t).tokens[1])
          /\ Len(CacheEntry(cache, N_t).tokens[1].children) = 1
          /\ CacheEntry(cache, N_t).tokens[1].children[1].kind = S_text
          /\ CacheEntry(cache, N_t).tokens[1].children[1].value = <<"a">>

(* C7: addTokenHandler for a kind that has a handler already reports an
   error and leaves the handler table and the list the tag pattern is
   built from as they were. *)
C7_ExistingHandlerKept ==
    [][(last'.op = "addTokenHandler" /\ last'.name \in DOMAIN tokenHandlers) =>
          /\ last'.errors # <<>>
          /\ tokenHandlers' = tokenHandlers
          /\ tagReList' = tagReList]_vars

----------------------------------------------------------------------------
(* The delimiter pair: late.tags.set(override) and the assignment
   late.tags = override, with parses and renders in between. *)

SquareTags == << <<"[","[">>, <<"]","]">> >>

TagOverrides == { SquareTags, << <<"[","[">> >>, <<>> }

TagSources ==
    { <<"[","[","v","]","]">>,                  \* [[v]]
      Open \o <<"v">> \o Close }                 \* {{v}}

TagViews == { Obj(<<"v">> :> Str(<<"<">>)) }

InitTags == Loaded /\ input = NoInput

ParseTagged(template) == Parse(N_t, template) /\ UNCHANGED history

NextTags ==
    \/ \E override \in TagOverrides : TagsSet(override)
    \/ \E override \in TagOverrides : AssignTags(override)
    \/ \E template \in TagSources : ParseTagged(template)
    \/ \E view \in TagViews : Render(N_t, view)

SpecTags == InitTags /\ [][NextTags]_vars

(* C8: an override of the delimiter pair by a value that is not a list of
   two elements reports an error and leaves the configured pair as it
   was. *)
C8_NonPairRejected ==
    [][(last'.op = "tags.set" /\ ~last'.threw /\ Len(last'.view.a) # 2) =>
          /\ last'.errors # <<>>
          /\ tags' = tags]_vars

(* C9: once late.tags has been assigned a list [o, c] of two elements, so
   that reading it gives [o, c], a parse recognizes the directives
   delimited by o and c: it returns what parsing with the pair [o, c]
   returns. *)
C9_AssignedTagsUsed ==
    (last.op = "parse" /\ lateTags.t = "array" /\ Len(lateTags.a) = 2) =>
        With(ParseWith(lateTags.a, tagReList, last.source), LAMBDA p :
            /\ last.threw = p.threw
            /\ ~p.threw => CacheEntry(cache, last.name).tokens = p.tokens)

----------------------------------------------------------------------------
(* The escape function: the assignment late.escape = f, with parses and
   renders in between. *)

EscapeFunctions == {"escapeHtml", "userEscape"}

EscapeSources ==
    { Open \o <<"v">> \o Close,                       \* {{v}}
      <<"a">> \o Open \o <<"v">> \o Close,             \* a{{v}}
      Open \o <<"h","t","m","l"," ","v">> \o Close }   \* {{html v}}

EscapeViews == { EmptyObject, Obj(<<"v">> :> Str(<<"<">>)), Obj(<<"v">> :> Num(1)) }

InitEscape == Loaded /\ input = NoInput

ParseEscaped(name, template) == Parse(name, template) /\ UNCHANGED history

NextEscape ==
    \/ \E f \in EscapeFunctions : AssignEscape(f)
    \/ \E name \in Names, template \in EscapeSources : ParseEscaped(name, template)
    \/ \E name \in Names, view \in EscapeViews : Render(name, view)

SpecEscape == InitEscape /\ [][NextEscape]_vars

(* C10: once late.escape has been replaced by a function f, the render of
   a name token emits f applied to the value the name resolves to. *)
C10_ReplacedEscapeApplied ==
    (/\ last.op = "render"
     /\ lateEscape = "userEscape"
     /\ exists(last.name)
     /\ HasTokens(CacheEntry(cache, last.name))
     /\ CacheEntry(cache, last.name).tokens = <<Token(S_name, <<"v">>, 0, 5)>>) =>
        /\ ~last.threw
        /\ last.ret = Str(userEscape(lookup(Context(last.view), <<"v">>, <<>>).value))

----------------------------------------------------------------------------
(* A context under push and lookup calls: render creates the root frame
   for the view it is given, the section handlers push frames on it and go
   on with the context they pushed on when the section is rendered, and
   every handler looks names up. *)

MaxContextCalls == 3    \* push, return and lookup calls recorded in `history`
MaxFrames == 3          \* frames of the context

K_x == <<"x">>
K_true == <<"t","r","u","e">>
K_false == <<"f","a","l","s","e">>

ContextViews ==
    { EmptyObject,
      Obj(K_x :> Num(1)),
      Obj((K_x :> Num(2)) @@ (K_true :> Num(0)) @@ (K_false :> Num(1))) }

LookupNames ==
    { K_x,
      <<"$",".","x">>,
      <<"#">>,
      <<"$">>,
      <<"#",".","x">>,
      <<"&",".","x">>,
      <<"&",".","S","t","r","i","n","g">> }

ReservedNames == { Str(K_true), Str(K_false), Bool(TRUE), Str(K_x) }

InitContext == Loaded /\ input \in [source : {<<>>}, view : ContextViews]

Logged(op, name) ==
    /\ Len(history) < MaxContextCalls
    /\ history' = Append(history, [op |-> op, name |-> name, frame |-> Len(theContext)])

\* new Context(view), as render makes it
NewContext ==
    /\ theContext = <<>>
    /\ theContext' = Context(input.view)
    /\ last' = Call("Context", <<>>, <<>>, input.view, Undef, FALSE, <<>>)
    /\ UNCHANGED <<history, cache, current, tagReList, tokenHandlers, tags, lateTags,
                   lateEscape, promiseElementId, input, promises>>

\* context.push(view)
Push(view) ==
    /\ theContext # <<>>
    /\ Len(theContext) < MaxFrames
    /\ Logged("push", <<>>)
    /\ theContext' = push(theContext, view)
    /\ last' = Call("push", <<>>, <<>>, view, Undef, FALSE, <<>>)
    /\ UNCHANGED <<cache, current, tagReList, tokenHandlers, tags, lateTags,
                   lateEscape, promiseElementId, input, promises>>

\* the handler that pushed the last frame goes on with the context before it
Return ==
    /\ Len(theContext) > 1
    /\ Logged("return", <<>>)
    /\ theContext' = SubSeq(theContext, 1, Len(theContext) - 1)
    /\ last' = Call("return", <<>>, <<>>, Undef, Undef, FALSE, <<>>)
    /\ UNCHANGED <<cache, current, tagReList, tokenHandlers, tags, lateTags,
                   lateEscape, promiseElementId, input, promises>>

\* context.lookup(name)
Lookup(name) ==
    /\ theContext # <<>>
    /\ \E r \in {lookup(theContext, name, <<>>)} :
        /\ Logged("lookup", name)
        /\ theContext' = r.ctx
        /\ last' = Call("lookup", name, <<>>, Undef, r.value, r.threw, r.errors)
        /\ UNCHANGED <<cache, current, tagReList, tokenHandlers, tags, lateTags,
                       lateEscape, promiseElementId, input, promises>>

\* context.lookupWithReserved(name)
LookupWithReserved(name) ==
    /\ theContext # <<>>
    /\ \E r \in {lookupWithReservedOf(theContext, name)} :
        /\ Logged("lookupWithReserved", name)
        /\ theContext' = r.ctx
        /\ last' = Call("lookupWithReserved", name, <<>>, Undef, r.value, r.threw,
                        r.errors)
        /\ UNCHANGED <<cache, current, tagReList, tokenHandlers, tags, lateTags,
                       lateEscape, promiseElementId, input, promises>>

NextContext ==
    \/ NewContext
    \/ \E view \in ContextViews : Push(view)
    \/ Return
    \/ \E name \in LookupNames : Lookup(name)
    \/ \E name \in ReservedNames : LookupWithReserved(name)

SpecContext == InitContext /\ [][NextContext]_vars

\* the view of the frame render created
RootView == Frame(input.view).view

(* C11: in every context reached by push calls from the frame render
   created, the root is that frame, and lookup('#') gives what lookup('$')
   gives at the root frame, the root view, whatever was looked up and
   memoized before. *)
C11_RootKept ==
    theContext # <<>> =>
        /\ theContext[1].view = RootView
        /\ ~lookup(theContext, <<"#">>, <<>>).threw
        /\ lookup(theContext, <<"#">>, <<>>).value
               = lookup(SubSeq(theContext, 1, 1), <<"$">>, <<>>).value
        /\ lookup(theContext, <<"#">>, <<>>).value = RootView

\* a frame two pushes deep, after a lookup that memoized in the root frame
C11_Witness ==
    /\ Len(theContext) = 3
    /\ K_x \in DOMAIN theContext[1].cache
    /\ theContext[3].view # RootView

(* C12: lookupWithReserved('true') and lookupWithReserved(true) return
   true and lookupWithReserved('false') returns false, at every frame depth
   and whatever the views of the frames hold, keys named true and false
   included. *)
C12_ReservedIgnoreViews ==
    last.op = "lookupWithReserved" =>
        /\ last.name \in {Str(K_true), Bool(TRUE)} =>
               (~last.threw /\ last.ret = Bool(TRUE))
        /\ last.name = Str(K_false) => (~last.threw /\ last.ret = Bool(FALSE))

\* 'true' looked up from a pushed frame whose view defines the key true
C12_Witness ==
    /\ last.op = "lookupWithReserved"
    /\ last.name = Str(K_true)
    /\ last.ret = Bool(TRUE)
    /\ Len(theContext) > 1
    /\ K_true \in DOMAIN theContext[Len(theContext)].view.o

(* C13: a lookup of $.x gives the value of x in the view of the frame it
   is called on and undefined when that view does not define x, whatever
   the parent and root frames define and whatever was memoized in the
   frame before. *)
C13_ScopedLookupStaysInFrame ==
    (last.op = "lookup" /\ last.name = <<"$",".","x">>) =>
        /\ ~last.threw
        /\ last.ret = GetProp(theContext[Len(theContext)].view, K_x).value

(* $.x gave undefined in a pushed frame whose parent defines x, right after
   the lookup of x in that frame that memoized the parent's value *)
C13_Witness ==
    /\ last.op = "lookup"
    /\ last.name = <<"$",".","x">>
    /\ last.ret = Undef
    /\ Len(theContext) > 1
    /\ K_x \in DOMAIN theContext[Len(theContext) - 1].view.o
    /\ Len(history) > 1
    /\ history[Len(history) - 1] =
           [op |-> "lookup", name |-> K_x, frame |-> Len(theContext)]

(* C14: a lookup of &.x, for a name x the host global scope does not
   define, gives undefined whatever the views of the current, parent and
   root frames hold, and writes no frame's cache. *)
C14_GlobalScopeOnly ==
    [][(/\ last'.op = "lookup"
        /\ last'.name = <<"&",".","x">>
        /\ K_x \notin DOMAIN Window.o) =>
           /\ last'.ret = Undef
           /\ theContext' = theContext]_vars

K_toString == <<"t","o","S","t","r","i","n","g">>

(* What the nearest frame of the context whose view defines the name
   gives: the value in that view, called on the view when it is a function,
   and undefined when no view defines the name. *)
NearestValue(ctx, name) ==
    LET defined == {i \in 1..Len(ctx) : GetProp(ctx[i].view, name).value # Undef}
        nearest == CHOOSE i \in defined : \A j \in defined : j <= i
        value == GetProp(ctx[nearest].view, name).value
    IN  IF defined = {} THEN Undef
        ELSE IF value.t = "function"
        THEN ApplyFn(value.f, ctx[nearest].view, <<>>).value
        ELSE value

(* C28: in every context, whatever was looked up and memoized before and
   in whatever order, an unscoped lookup of a name on a frame gives what
   the nearest frame from that frame to the root whose view defines the
   name gives, and undefined when none does. *)
C28_NearestFrameWins ==
    theContext # <<>> =>
        \A name \in {K_x, K_toString} :
            /\ \A k \in 1..Len(theContext) :
                   /\ ~lookup(SubSeq(theContext, 1, k), name, <<>>).threw
                   /\ lookup(SubSeq(theContext, 1, k), name, <<>>).value
                          = NearestValue(SubSeq(theContext, 1, k), name)
            /\ (last.op = "lookup" /\ last.name = name) =>
                   last.ret = NearestValue(theContext, name)

----------------------------------------------------------------------------
(* Rendering of the directives: templates of one directive each are parsed
   under the name t and rendered against views that decide the directive. *)

K_a == <<"a">>
K_b == <<"b">>
K_c == <<"c">>
K_n == <<"n">>
K_xs == <<"x","s">>

If(payload) == Open \o <<"i","f"," ">> \o payload \o Close
Else == Open \o <<"e","l","s","e">> \o Close
EndIf == Open \o <<"/","i","f">> \o Close
Each(payload) == Open \o <<"e","a","c","h"," ">> \o payload \o Close
EndEach == Open \o <<"/","e","a","c","h">> \o Close
Name(payload) == Open \o payload \o Close

\* {{if a || b && c}}y{{/if}}   {{if a && b || c}}y{{/if}}
\* {{if a && b}}y{{/if}}        {{if a || b}}y{{/if}}
FoldSources ==
    { If(<<"a"," ","|","|"," ","b"," ","&","&"," ","c">>) \o <<"y">> \o EndIf,
      If(<<"a"," ","&","&"," ","b"," ","|","|"," ","c">>) \o <<"y">> \o EndIf,
      If(<<"a"," ","&","&"," ","b">>) \o <<"y">> \o EndIf,
      If(<<"a"," ","|","|"," ","b">>) \o <<"y">> \o EndIf }

\* {{if a}}x{{else}}z{{/if}}   {{if a}}x{{/if}}
\* {{if a}}x{{else}}z{{else}}w{{/if}}   {{if a}}{{$.b}}{{else}}{{$.c}}{{/if}}
ElseSources ==
    { If(K_a) \o <<"x">> \o Else \o <<"z">> \o EndIf,
      If(K_a) \o <<"x">> \o EndIf,
      If(K_a) \o <<"x">> \o Else \o <<"z">> \o Else \o <<"w">> \o EndIf,
      If(K_a) \o Name(<<"$",".","b">>) \o Else \o Name(<<"$",".","c">>) \o EndIf }

\* {{each xs}}[{{$index}}:{{$value}}]{{/each}}   {{each xs}}{{n}}{{$.n}}{{$index}};{{/each}}
EachSources ==
    { Each(K_xs) \o <<"[">> \o Name(Index) \o <<":">> \o Name(Value) \o <<"]">>
          \o EndEach,
      Each(K_xs) \o Name(K_n) \o Name(<<"$",".","n">>) \o Name(Index) \o <<";">>
          \o EndEach }

\* {{>>String(n)}}   {{>> String(n)}}
CallSources ==
    { Open \o <<">",">","S","t","r","i","n","g","(","n",")">> \o Close,
      Open \o <<">",">"," ","S","t","r","i","n","g","(","n",")">> \o Close }

RenderSources == FoldSources \cup ElseSources \cup EachSources \cup CallSources

\* a, b and c with every truth value
TruthViews ==
    { Obj((K_a :> Bool(x)) @@ (K_b :> Bool(y)) @@ (K_c :> Bool(z))) :
          x \in BOOLEAN, y \in BOOLEAN, z \in BOOLEAN }

\* xs: [10, 20], [], [{n: 7}, 's'], 0 and [null], next to n: 5
ListViews ==
    { Obj((K_n :> Num(5)) @@ (K_xs :> xs)) :
          xs \in { Arr(<<Num(10), Num(20)>>),
                   Arr(<<>>),
                   Arr(<<Obj(K_n :> Num(7)), Str(<<"s">>)>>),
                   Num(0),
                   Arr(<<Null>>) } }

RenderViews == TruthViews \cup ListViews

InitRender == Loaded /\ input = NoInput

ParseDirective(template) == Parse(N_t, template) /\ UNCHANGED history

NextRender ==
    \/ \E template \in RenderSources : ParseDirective(template)
    \/ \E view \in RenderViews : Render(N_t, view)

SpecRender == InitRender /\ [][NextRender]_vars

\* the template render read, when the last call is a render that found one
RenderedEntry == CacheEntry(cache, last.name)

RenderedTemplate ==
    /\ last.op = "render"
    /\ exists(last.name)
    /\ HasTokens(RenderedEntry)

\* the left-to-right fold of the operand values, no operator before another
RECURSIVE FoldLeft(_, _, _, _)
FoldLeft(parts, i, acc, view) ==
    IF i > Len(parts) THEN acc
    ELSE FoldLeft(parts, i + 2,
                  IF parts[i] = AndOr[1]
                  THEN acc /\ Truthy(GetProp(view, parts[i + 1]).value)
                  ELSE acc \/ Truthy(GetProp(view, parts[i + 1]).value),
                  view)

LeftFold(payload, view) ==
    LET parts == SplitKeep(StripSpaces(payload), AndOr, 1, <<>>)
    IN  FoldLeft(parts, 2, Truthy(GetProp(view, parts[1]).value), view)

(* C15: the condition of an if whose payload joins operands with && and ||
   is their left-to-right fold without precedence, a || b && c being
   (a || b) && c, and the body is rendered exactly when the fold is
   truthy. *)
C15_ConditionIsLeftFold ==
    (RenderedTemplate /\ RenderedEntry.template \in FoldSources
                      /\ last.view \in TruthViews) =>
        /\ ~last.threw
        /\ last.ret = Str(IF LeftFold(RenderedEntry.tokens[1].value, last.view)
                          THEN <<"y">> ELSE <<>>)

(* C16: an if renders the children before its first immediate else when
   the condition holds and the children after that else when it fails;
   without an else it renders all its children when the condition holds
   and returns nothing when it fails; the children are rendered against
   the context the if is rendered against, no frame being pushed. *)
C16_ElseSplitsChildren ==
    (RenderedTemplate /\ RenderedEntry.template \in ElseSources
                      /\ last.view \in TruthViews) =>
        LET token == RenderedEntry.tokens[1]
            kids == token.children
            holds == Truthy(GetProp(last.view, K_a).value)
            elses == {x \in 1..Len(kids) : kids[x].kind = S_else}
            first == CHOOSE x \in elses : \A y \in elses : x <= y
            chosen == IF elses = {} THEN IF holds THEN kids ELSE <<>>
                      ELSE IF holds THEN SubSeq(kids, 1, first - 1)
                      ELSE SubSeq(kids, first + 1, Len(kids))
        IN  /\ ~last.threw
            /\ last.ret = Str(renderTokens(chosen, Context(last.view), Env,
                                           Pid(promiseElementId), 1).buffer)
            /\ (elses = {} /\ ~holds) =>
                   Handle("if", token, Context(last.view), Env,
                          Pid(promiseElementId), 1).out = Undef

\* {{if a}}x{{else}}z{{else}}w{{/if}} rendered with a false gives zw
C16_Witness ==
    /\ RenderedTemplate
    /\ RenderedEntry.template
           = If(K_a) \o <<"x">> \o Else \o <<"z">> \o Else \o <<"w">> \o EndIf
    /\ last.view \in TruthViews
    /\ last.ret = Str(<<"z","w">>)

\* the view pushed for element i: the element with $index when it is an
\* object, {$index, $value} otherwise
ElementView(element, i) ==
    IF element.t = "object" THEN Obj((Index :> Num(i)) @@ element.o)
    ELSE Obj((Index :> Num(i)) @@ (Value :> element))

\* the renderings of the children for the elements from i on, concatenated
RECURSIVE EachExpected(_, _, _, _)
EachExpected(kids, view, list, i) ==
    IF i > Len(list) THEN <<>>
    ELSE renderTokens(kids, push(Context(view), ElementView(list[i], i - 1)), Env,
                      Pid(promiseElementId), 1).buffer
             \o EachExpected(kids, view, list, i + 1)

(* C17: each over a list of n elements renders its children n times, in
   index order, each time in a frame pushed on the current one whose view
   is the element with $index = i when the element is an object and
   {$index: i, $value: element} otherwise, and emits the concatenation; a
   falsy value emits nothing and an empty list the empty string. *)
C17_EachRendersEveryElement ==
    (RenderedTemplate /\ RenderedEntry.template \in EachSources
                      /\ last.view \in ListViews) =>
        LET token == RenderedEntry.tokens[1]
            xs == GetProp(last.view, K_xs).value
            out == Handle("each", token, Context(last.view), Env,
                          Pid(promiseElementId), 1).out
        IN  /\ ~last.threw
            /\ xs.t = "array" =>
                   last.ret = Str(EachExpected(token.children, last.view, xs.a, 1))
            /\ xs = Arr(<<>>) => out = Str(<<>>)
            /\ ~Truthy(xs) => (last.ret = Str(<<>>) /\ out = Undef)

(* C18: a >> directive emits the return value of the host-global function
   its payload names, called with the arguments resolved against the view:
   {{>>String(n)}}, and {{>> String(n)}} likewise, rendered with n = 5
   give 5. *)
C18_CallEmitsReturnValue ==
    (RenderedTemplate /\ RenderedEntry.template \in CallSources
                      /\ last.view \in ListViews) =>
        /\ ~last.threw
        /\ last.ret = Str(JsString(GetProp(last.view, K_n).value))

----------------------------------------------------------------------------
(* Promise tokens: renders that register callbacks, and the promises
   settling in any order between and after the renders. *)

MaxPromises == 2    \* placeholder identifiers handed out

K_p == <<"p">>
K_q == <<"q">>

Promise(payload) == Open \o <<"p","r","o","m","i","s","e"," ">> \o payload \o Close
EndPromise == Open \o <<"/","p","r","o","m","i","s","e">> \o Close

\* {{promise p}}{{$}}{{/promise}}
\* {{promise p}}a{{/promise}}{{promise q}}b{{/promise}}
\* {{promise q}}{{promise q}}b{{/promise}}{{/promise}}
PromiseSources ==
    { Promise(K_p) \o Name(<<"$">>) \o EndPromise,
      Promise(K_p) \o <<"a">> \o EndPromise \o Promise(K_q) \o <<"b">> \o EndPromise,
      Promise(K_q) \o Promise(K_q) \o <<"b">> \o EndPromise \o EndPromise }

\* p is fulfilled with ['s', 't'] and q with 1; p is no promise
PromiseViews ==
    { Obj((K_p :> Deferred(Arr(<<Str(<<"s">>), Str(<<"t">>)>>)))
              @@ (K_q :> Deferred(Num(1)))),
      Obj(K_p :> Num(1)) }

InitPromise == Loaded /\ input = NoInput

ParsePromise(template) == Parse(N_t, template) /\ UNCHANGED history

RenderPromise(view) == Render(N_t, view) /\ promiseElementId' <= MaxPromises

ThenWithin(i, attached) == Then(i, attached) /\ promiseElementId' <= MaxPromises

NextPromise ==
    \/ \E template \in PromiseSources : ParsePromise(template)
    \/ \E view \in PromiseViews : RenderPromise(view)
    \/ \E i \in 1..Len(promises), attached \in BOOLEAN : ThenWithin(i, attached)
    \/ \E i \in 1..Len(promises) : Catch(i)

SpecPromise == InitPromise /\ [][NextPromise]_vars

(* C19: every promise token rendered for a promise emits a placeholder
   whose identifier differs from every identifier emitted before, and the
   callback, whenever its promise is fulfilled, replaces the placeholder
   its own handler invocation emitted and no other. *)
C19_OwnPlaceholderReplaced ==
    /\ \A i, j \in 1..Len(promises) :
           i # j => promises[i].emitted # promises[j].emitted
    /\ \A i \in 1..Len(promises) :
           promises[i].state = "replaced" =>
               /\ promises[i].container = PromisePlaceholder(promises[i].emitted)
               /\ \A j \in 1..Len(promises) :
                      promises[i].container = PromisePlaceholder(promises[j].emitted)
                          => j = i

\* a later callback has replaced its placeholder while an earlier one is
\* still pending
C19_Witness ==
    \E i, j \in 1..Len(promises) :
        /\ i < j
        /\ promises[i].state = "pending"
        /\ promises[j].state = "replaced"
        /\ promises[j].container = PromisePlaceholder(promises[j].emitted)

(* C20: a render leaves the template cache, the handler table, the tags
   and the counter of placeholder identifiers as they were. *)
C20_RenderKeepsModuleState ==
    [][last'.op = "render" =>
          /\ cache' = cache
          /\ tokenHandlers' = tokenHandlers
          /\ tagReList' = tagReList
          /\ tags' = tags
          /\ promiseElementId' = promiseElementId]_vars

----------------------------------------------------------------------------
(* squashTokens on flat token lists *)

MaxTokens == 4    \* tokens in a flat list

\* two text tokens, a name token and a missing element
FlatTokens ==
    { Token(S_text, <<"a">>, 0, 1), Token(S_text, <<"b">>, 1, 1),
      Token(S_name, <<"x">>, 2, 7), NoToken }

TokenLists == UNION { [1..n -> FlatTokens] : n \in 0..MaxTokens }

InitTokens == Loaded /\ input \in [tokens : TokenLists]

\* squashTokens(tokens), the list and the result kept in `last`
Squash(tokens) ==
    /\ last' = Call("squashTokens", <<>>, <<>>, tokens, squashTokens(tokens),
                    FALSE, <<>>)
    /\ UNCHANGED <<history, cache, current, tagReList, tokenHandlers, tags, lateTags,
                   lateEscape, promiseElementId, input, theContext, promises>>

\* of a list, and of what the last call returned
NextTokens ==
    \/ Squash(input.tokens)
    \/ last.op = "squashTokens" /\ Squash(last.ret)

SpecTokens == InitTokens /\ [][NextTokens]_vars

\* the payload characters of text tokens and the other tokens, in order
RECURSIVE Spread(_)
Spread(tokens) ==
    IF tokens = <<>> THEN <<>>
    ELSE (IF Head(tokens) = NoToken THEN <<>>
          ELSE IF Head(tokens).kind = S_text THEN Head(tokens).value
          ELSE <<Head(tokens)>>) \o Spread(Tail(tokens))

(* C21: squashTokens applied to its own result gives that result again;
   the result has no two consecutive text tokens, and the payloads of its
   text tokens are the merged payloads concatenated in order, the other
   tokens staying where they were. *)
C21_SquashIdempotent ==
    last.op = "squashTokens" =>
        /\ squashTokens(last.ret) = last.ret
        /\ \A i \in 1..(Len(last.ret) - 1) :
               ~(last.ret[i].kind = S_text /\ last.ret[i + 1].kind = S_text)
        /\ \A i \in 1..Len(last.ret) : last.ret[i] # NoToken
        /\ Spread(last.ret) = Spread(last.view)

\* two text tokens around a missing element were merged into one, next to
\* a name token
C21_Witness ==
    /\ last.op = "squashTokens"
    /\ NoToken \in {last.view[i] : i \in 1..Len(last.view)}
    /\ \E i \in 1..Len(last.ret) :
           /\ last.ret[i].kind = S_text
           /\ Len(last.ret[i].value) >= 2
           /\ i <= Len(last.view)
           /\ last.view[i] # last.ret[i]
    /\ S_name \in {last.ret[i].kind : i \in 1..Len(last.ret)}

----------------------------------------------------------------------------
(* Sections: sources of section openers, closers, else and text in any
   order, parsed once. *)

MaxNest == 5    \* pieces of a source

\* \ta, {{if v}}, {{each v}}, {{else}}, {{/if}}, {{/each}}
NestPieces ==
    { <<"\t","a">>, If(<<"v">>), Each(<<"v">>), Else, EndIf, EndEach }

NestInputs ==
    { [source |-> Flatten(pieces)] :
        pieces \in UNION {[1..n -> NestPieces] : n \in 0..MaxNest} }

InitNest == Loaded /\ input \in NestInputs

\* late.parse('t', source)
ParseNest ==
    /\ last = NoCall
    /\ Parse(N_t, input.source)
    /\ UNCHANGED history

NextNest == ParseNest

SpecNest == InitNest /\ [][NextNest]_vars

\* the tree of the template just parsed
ParsedTree == CacheEntry(cache, N_t).tokens

\* in the string n a close directive begins at offset `at`
IsCloseAt(n, at) ==
    /\ OccursAt(Substring(n, at), 1, Open)
    /\ Len(n) > at + Len(Open)
    /\ n[at + Len(Open) + WhiteRun(n, at + Len(Open) + 1) + 1] = "/"

\* the offset in n after the directive that begins at offset `at`
TagEnd(n, at) ==
    LET rest == Substring(n, at)
        index == ReSearch([re |-> "close", lit |-> Close], rest)
    IN  at + index + ReMatchLenAt([re |-> "close", lit |-> Close], rest, index + 1)

(* The tokens lie in n one after the other from offset `from` to offset
   `to`: a text token is the text at its start, a section is followed by
   its children, which end where its close directive begins, and no
   token is a close token. *)
RECURSIVE Tiles(_, _, _, _)
Tiles(tokens, from, to, n) ==
    IF tokens = <<>> THEN from = to
    ELSE LET t == Head(tokens)
         IN  /\ t.start = from
             /\ t.kind # S_slash
             /\ IF t.kind = S_text
                THEN /\ SubSeq(n, from + 1, from + Len(t.value)) = t.value
                     /\ Tiles(Tail(tokens), from + Len(t.value), to, n)
                ELSE IF IsSectionKind(t.kind)
                THEN /\ HasClose(t)
                     /\ IsCloseAt(n, t.close)
                     /\ Tiles(t.children, t.end, t.close, n)
                     /\ Tiles(Tail(tokens), TagEnd(n, t.close), to, n)
                ELSE /\ ~HasChildren(t)
                     /\ Tiles(Tail(tokens), t.end, to, n)

\* the parse returned a tree and reported no section or tag left open and
\* no close directive without a section
BalancedParse ==
    /\ last.op = "parse"
    /\ ~last.threw
    /\ \A i \in 1..Len(last.errors) : last.errors[i] = "UnopenedIfForElse"

(* C22: in the tree of a source whose sections are balanced, no child list holds a close token and the sixth item
   of every section token is the offset in the normalized source at which
   its matching close directive begins: the children fill the source from
   the end of the opening directive to that offset. *)
C22_CloseOffsetRecorded ==
    BalancedParse =>
        Tiles(ParsedTree, 0, Len(Normalized(input.source)),
              Normalized(input.source))

\* a closed section in a closed section, the inner close directive at
\* another offset than in the source as it was given
C22_Witness ==
    /\ BalancedParse
    /\ \E i \in 1..Len(ParsedTree) :
           /\ HasClose(ParsedTree[i])
           /\ \E j \in 1..Len(ParsedTree[i].children) :
                  /\ HasClose(ParsedTree[i].children[j])
                  /\ ParsedTree[i].children[j].children # <<>>
                  /\ ~IsCloseAt(input.source, ParsedTree[i].children[j].close)

\* the else tokens of a token list
ElseCount(tokens) == Cardinality({i \in 1..Len(tokens) : tokens[i].kind = S_else})

\* at most `most` else tokens in the list, at most one in the child list
\* of an if token and none in any other child list, all the way down
RECURSIVE ElseWithin(_, _)
ElseWithin(tokens, most) ==
    /\ ElseCount(tokens) <= most
    /\ \A i \in 1..Len(tokens) :
           HasChildren(tokens[i]) =>
               ElseWithin(tokens[i].children, IF tokens[i].kind = S_if THEN 1 ELSE 0)

(* C24: in a tree that parse returns without reporting an error, the child
   list of every if token holds at most one else token, and an else token
   is nowhere but in the child list of an if token. *)
C24_OneElsePerIf ==
    (last.op = "parse" /\ ~last.threw /\ last.errors = <<>>) =>
        ElseWithin(ParsedTree, 0)

----------------------------------------------------------------------------
(* Negation: name expressions of every form looked up with and without a
   leading `!`, in contexts of up to MaxFrames frames. *)

K_y == <<"y">>

\* {}, {x: 0}, {x: {y: 's'}}
NegateViews ==
    { EmptyObject, Obj(K_x :> Num(0)), Obj(K_x :> Obj(K_y :> Str(<<"s">>))) }

\* x, x.y, $.x, #.x, $, &.String, 'a', "", String(x), String(), nofn(x), $.x(1)
NameExpressions ==
    { K_x,
      <<"x",".","y">>,
      <<"$",".","x">>,
      <<"#",".","x">>,
      <<"$">>,
      <<"&",".","S","t","r","i","n","g">>,
      <<"'","a","'">>,
      <<"\"","\"">>,
      <<"S","t","r","i","n","g","(","x",")">>,
      <<"S","t","r","i","n","g","(",")">>,
      <<"n","o","f","n","(","x",")">>,
      <<"$",".","x","(","1",")">> }

Not(name) == <<"!">> \o name

InitNegate == Loaded /\ input \in [source : {<<>>}, view : NegateViews]

\* context.lookup(name), not recorded in `history`
LookupOnly(name) ==
    /\ theContext # <<>>
    /\ \E r \in {lookup(theContext, name, <<>>)} :
        /\ theContext' = r.ctx
        /\ last' = Call("lookup", name, <<>>, Undef, r.value, r.threw, r.errors)
        /\ UNCHANGED <<history, cache, current, tagReList, tokenHandlers, tags,
                       lateTags, lateEscape, promiseElementId, input, promises>>

NextNegate ==
    \/ NewContext
    \/ \E view \in NegateViews : Push(view)
    \/ \E name \in NameExpressions \cup {Not(n) : n \in NameExpressions} :
           LookupOnly(name)

SpecNegate == InitNegate /\ [][NextNegate]_vars

(* C23: in every context, for every name expression n (a plain, dotted or
   scoped name, a quoted string literal, a function call), lookup('!' + n)
   returns the logical negation of what lookup(n) returns. *)
C23_NegationPrefix ==
    theContext # <<>> =>
        \A n \in NameExpressions :
            /\ lookup(theContext, Not(n), <<>>).threw = lookup(theContext, n, <<>>).threw
            /\ ~lookup(theContext, n, <<>>).threw =>
                   lookup(theContext, Not(n), <<>>).value
                       = Bool(~Truthy(lookup(theContext, n, <<>>).value))

----------------------------------------------------------------------------
(* Kinds: directives that begin with the name of a kind, with and without
   a space after it, parsed before and after addTokenHandler calls. *)

S_m == <<"m">>

NewKinds == { S_k, S_m }

\* the contents of the directives
KindContents ==
    { <<"p","r","o","m","i","s","e","d">>,          \* promised
      <<"p","r","o","m","i","s","e"," ","d">>,      \* promise d
      <<"g","e","t","x">>,                          \* getx
      <<"g","e","t"," ","x">>,                      \* get x
      <<"i","f","x">>,                              \* ifx
      <<"k","x">>,                                  \* kx
      <<"k"," ","x">>,                              \* k x
      <<"m","x">>,                                  \* mx
      <<"m"," ","x">> }                             \* m x

KindSources == { Open \o content \o Close : content \in KindContents }

InitKinds == Loaded /\ input = NoInput

ParseKind(template) == Parse(N_t, template) /\ UNCHANGED history

NextKinds ==
    \/ \E name \in NewKinds : AddTokenHandler(name, "userLeaf")
    \/ \E template \in KindSources : ParseKind(template)

SpecKinds == InitKinds /\ [][NextKinds]_vars

\* the content of the one directive a source consists of
ContentOf(source) == SubSeq(source, Len(Open) + 1, Len(source) - Len(Close))

\* the content begins with a registered kind followed by a space
BeginsWithKind(content) ==
    \E i \in 1..Len(tagReList) : OccursAt(content, 1, tagReList[i] \o <<" ">>)

(* C25: whatever addTokenHandler calls came before, a directive whose
   content does not begin with a registered kind followed by a space is
   tokenized as a name token with its whole content, the spaces removed
   as from every payload, as payload. *)
C25_KindNeedsSpace ==
    (last.op = "parse" /\ ~BeginsWithKind(ContentOf(last.source))) =>
        /\ ~last.threw
        /\ Len(ParsedTree) = 1
        /\ ParsedTree[1].kind = S_name
        /\ ParsedTree[1].value = StripSpaces(ContentOf(last.source))

----------------------------------------------------------------------------
(* Trees: sources of directives of every kind in any order, parsed once. *)

MaxTree == 3    \* pieces of a source

\* a, {{v}}, {{> v}}, {{>> v}}, {{% u}}, {{html v}}, {{else}}, {{if v}},
\* {{each v}}, {{get v}}, {{promise v}}, {{/if}}
TreePieces ==
    { <<"a">>,
      Name(<<"v">>),
      Name(<<">"," ","v">>),
      Name(<<">",">"," ","v">>),
      Name(<<"%"," ","u">>),
      Name(<<"h","t","m","l"," ","v">>),
      Else,
      If(<<"v">>),
      Each(<<"v">>),
      Name(<<"g","e","t"," ","v">>),
      Promise(<<"v">>),
      EndIf }

TreeInputs ==
    { [source |-> Flatten(pieces)] :
        pieces \in UNION {[1..n -> TreePieces] : n \in 0..MaxTree} }

InitTree == Loaded /\ input \in TreeInputs

\* late.parse('t', source)
ParseTree ==
    /\ last = NoCall
    /\ Parse(N_t, input.source)
    /\ UNCHANGED history

NextTree == ParseTree

SpecTree == InitTree /\ [][NextTree]_vars

\* every token of the kinds if, each, get and promise has a child list, no
\* other token has one, and no token is a close token, all the way down
RECURSIVE Nested(_)
Nested(tokens) ==
    \A i \in 1..Len(tokens) :
        /\ tokens[i].kind # S_slash
        /\ tokens[i].kind \in {S_if, S_each, S_get, S_promise} =>
               HasChildren(tokens[i]) /\ Nested(tokens[i].children)
        /\ tokens[i].kind \in {S_text, S_name, S_gt, S_gtgt, S_pct, S_html, S_else} =>
               ~HasChildren(tokens[i])

(* C26: in every tree parse returns, each token of kind if, each, get or
   promise has a child list, which may be empty, no token of kind text,
   name, >, >>, %, html or else has one, and no close token is left. *)
C26_TreeShape ==
    (last.op = "parse" /\ ~last.threw) => Nested(ParsedTree)

\* a get section left open that holds an html token and a promise section
\* with no children
C26_Witness ==
    /\ last.op = "parse" /\ ~last.threw
    /\ Len(ParsedTree) = 1
    /\ ParsedTree[1].kind = S_get
    /\ Len(ParsedTree[1].children) = 2
    /\ ParsedTree[1].children[1].kind = S_html
    /\ ParsedTree[1].children[2].kind = S_promise
    /\ ParsedTree[1].children[2].children = <<>>

----------------------------------------------------------------------------
(* Operands: an if condition that is one operand without a comparison, and
   the same operand twice in an || chain. *)

\* a, !a, $.a, b, true, false, null, 1, 0
Operands ==
    { K_a, <<"!","a">>, <<"$",".","a">>, K_b,
      <<"t","r","u","e">>, <<"f","a","l","s","e">>, <<"n","u","l","l">>,
      <<"1">>, <<"0">> }

\* {{if e}}y{{else}}n{{/if}}
Alone(e) == If(e) \o <<"y">> \o Else \o <<"n">> \o EndIf

\* {{if e || e}}y{{else}}n{{/if}}
Chained(e) == If(e \o <<" ","|","|"," ">> \o e) \o <<"y">> \o Else \o <<"n">> \o EndIf

OperandSources == {Alone(e) : e \in Operands} \cup {Chained(e) : e \in Operands}

\* {}, {a: true}, {a: 0}, {b: 's'}
OperandViews ==
    { EmptyObject, Obj(K_a :> Bool(TRUE)), Obj(K_a :> Num(0)),
      Obj(K_b :> Str(<<"s">>)) }

InitOperand == Loaded /\ input = NoInput

NextOperand ==
    \/ \E template \in OperandSources : ParseDirective(template)
    \/ \E view \in OperandViews : Render(N_t, view)

SpecOperand == InitOperand /\ [][NextOperand]_vars

(* C27: for every operand e without a comparison and every view, the
   render of {{if e}}y{{else}}n{{/if}} gives what the render of
   {{if e || e}}y{{else}}n{{/if}} gives: the operand selects the same
   branch alone and in a chain. *)
C27_OperandSameInChain ==
    (last.op = "render" /\ exists(N_t) /\ HasTokens(RenderedEntry)) =>
        \A e \in Operands :
            RenderedEntry.template = Alone(e) =>
                [threw |-> last.threw, ret |-> last.ret]
                    = RenderSource(Chained(e), last.view)

====
